---- MODULE Spec2Model ----
(***************************************************************************)
(* A model of the Wanchai arbitrage bot (src/wanchai_project/src).         *)
(*                                                                         *)
(* Money, prices and share counts are Python floats in the source.  They   *)
(* are modelled as exact rationals <<n, d>> (d > 0, lowest terms), so the  *)
(* model follows the arithmetic the code writes and abstracts from binary  *)
(* rounding.                                                               *)
(*                                                                         *)
(* Every async method is cut at its await points: the part before the      *)
(* await and the part after it are separate steps, and the venue's answer  *)
(* is an input of the second step.                                         *)
(***************************************************************************)
EXTENDS Integers, Sequences, FiniteSets, TLC

VARIABLES
    dry_run,                \* PolymarketClient.dry_run
    market_resolved,        \* venue: market -> "open" or the winning outcome
    nr_available_capital,   \* NearResolvedSnipingStrategy._available_capital
    nr_active_positions,    \* NearResolvedSnipingStrategy._active_positions
    nr_exec,                \* execute() calls suspended in place_order
    nr_sweep,               \* check_resolutions() calls: the snapshot left to visit
    nr_results,             \* the StrategyResults of resolutions, latest per market
    nr_ops,                 \* operations started so far (bounds the run)
    yn,                     \* YesNoArbitrageStrategy and the account it trades on
    yn_ops,                 \* executions so far (bounds the run)
    pair_dry,               \* the same strategy on a dry-run client ...
    pair_live,              \* ... and on a live client, fed the same signals
    pair_ops,               \* signals fed so far (bounds the run)
    bot_running,            \* WanchaiBot._running
    bot_total_profit,       \* WanchaiBot._total_profit
    bot_pc,                 \* where WanchaiBot.run() stands
    bot_next,               \* run_once(): the strategy the loop runs next
    bot_iter_profit,        \* run_once(): results['total_profit']
    bot_iterations,         \* iterations of run() started so far (bounds the run)
    agg_prices,             \* PriceAggregator._prices[symbol]: the latest update
    agg_price_history,      \* PriceAggregator._price_history[symbol]
    agg_impulse,            \* the PriceImpulse the last update emitted, or NoValue
    rc_market_resolved,     \* venue: "open", or the winning outcome of the market
    rc_active_coverages,    \* RangeCoverageStrategy._active_coverages
    rc_exec,                \* the execute() call in flight, or Idle
    rc_result,              \* the StrategyResult of the last execute()
    rc_resolutions,         \* the last check_resolutions() result per market
    rc_ops,                 \* execute() calls so far (bounds the run)
    st_inventory,           \* SpreadTradingStrategy._inventory[token_id], or NoValue
    st_last_fill,           \* the arguments of the last update_inventory call
    st_fills,               \* update_inventory calls so far (bounds the run)
    cp_initial_capital,     \* CompoundingStrategy._initial_capital
    cp_current_capital,     \* CompoundingStrategy._current_capital
    cp_peak_capital,        \* CompoundingStrategy._peak_capital
    cp_total_profit,        \* CompoundingStrategy._total_profit
    cp_trade_count,         \* CompoundingStrategy._trade_count
    cp_win_count,           \* CompoundingStrategy._win_count
    bn_running,             \* BinanceConnector._running
    bn_ws,                  \* BinanceConnector._ws: NoSocket, or the task whose socket it is
    bn_subscriptions,       \* BinanceConnector._subscriptions
    bn_reconnect_delay,     \* BinanceConnector._reconnect_delay
    bn_task,                \* the _ws_connect tasks: where each stands, the streams it dialed
    bn_redials,             \* sleeps of _ws_connect since the last successful dial
    bn_wait,                \* the seconds of the last sleep of _ws_connect
    bn_delivered,           \* the last message given to the callbacks
    bn_ops,                 \* connector calls so far (bounds the run)
    ex_now,                 \* the local clock, datetime.now()
    ex_callbacks,           \* ExchangeBase._callbacks, with the updates seen at registration
    ex_price_history,       \* ExchangeBase._price_history[symbol]
    ex_received,            \* the updates each callback was called with
    ex_raised,              \* the callbacks that raised on the latest update
    ex_pc,                  \* _notify_callbacks: the callback called next, 0 when idle
    ob_bids,                \* OrderBook._bids: price -> OrderLevel
    ob_asks,                \* OrderBook._asks: price -> OrderLevel
    ob_price_history,       \* OrderBook._price_history
    ob_callbacks,           \* OrderBook._callbacks: callback -> snapshots it was called with
    ob_latest,              \* per side and price, the size of the entry received last
    ob_messages,            \* messages handled so far
    rl_tokens,              \* RateLimiter._tokens
    rl_elapsed,             \* ticks since RateLimiter._last_update
    rl_lock,                \* the caller holding RateLimiter._lock
    rl_waiters,             \* the callers waiting for RateLimiter._lock
    rl_request,             \* caller -> the tokens it asked for
    rl_pc,                  \* caller -> where it is in acquire
    rl_sleep,               \* ticks left of the asyncio.sleep of the lock holder
    nm_now,                 \* datetime.now().timestamp(), in ticks
    nm_rate_limit_timestamps,\* NotificationManager._rate_limit_timestamps
    nm_sent,                \* the notifications let through
    nm_held,                \* the notifications held back
    nm_calls,               \* calls of notify so far
    ss_pc,                  \* where WanchaiBot.run() stands
    ss_running,             \* WanchaiBot._running
    ss_signalled,           \* a shutdown signal was received
    ss_polymarket,          \* PolymarketClient._session is open
    ss_connector,           \* connector -> its HTTP session, _running, subscription, socket and connection task
    ss_iterations,          \* iterations of run() started so far
    ss_late,                \* iterations started after the shutdown signal
    ps_monitored,           \* YesNoArbitrageStrategy._monitored_markets, MultiOrderBook._pairs
    ps_signals,             \* the signals the last scan() returned
    ps_scans,               \* calls of scan() so far
    os_pc,                  \* where OrderBook.connect() stands
    os_gaps,                \* times the stream was closed and dialled again
    os_fresh,               \* per side and price, the size of the entry received last since the last dial
    sz_signals,             \* the signals the last NearResolvedStrategy.scan returned
    sz_scans,               \* scans so far
    cs_outcome_data,        \* per market scanned, outcome_data after the sort
    cs_coverage,            \* per market scanned, what _find_optimal_coverage returned
    cs_signals,             \* the signals the last RangeCoverageStrategy.scan returned
    cs_scans,               \* scans so far
    sm_active_orders,       \* SpreadTradingStrategy._active_orders[market_id], or NoValue
    sm_orders,              \* the orders the last execute or refresh_orders placed at the venue
    sm_handler,             \* the handler that ran last
    sm_ops,                 \* execute and refresh_orders calls so far
    la_pc,                  \* whether the LatencyArbitrageStrategy is constructed
    la_min_price_deviation, \* LatencyArbitrageStrategy.min_price_deviation
    la_pending_impulses,    \* LatencyArbitrageStrategy._pending_impulses
    la_now,                 \* datetime.now(), in ticks
    la_signals,             \* the signals the last scan returned
    la_read,                \* the BTC reference price and the Yes mid prices the last scan read
    la_scans,               \* scans so far
    rt_pc,                  \* where the wrapper of retry_async stands
    rt_config,              \* max_retries and base_delay of the decorator
    rt_attempt,             \* attempt of the loop in wrapper
    rt_calls,               \* calls of the operation so far
    rt_delays,              \* the delays slept between the attempts
    cz_last,                \* the last call of calculate_compound_size: arguments, capital, result
    cz_calls,               \* calls of calculate_compound_size so far
    sw_sweeps,              \* check_resolutions() calls of the overlapping callers so far
    mx_exchanges,           \* names of PriceAggregator._exchanges
    mx_prices,              \* PriceAggregator._prices[symbol].exchanges, in insertion order
    mx_seen,                \* whether PriceAggregator._prices holds the symbol
    mx_arb,                 \* the opportunity the last operation handed to the arbitrage callbacks
    mx_ops                  \* operations so far

clientVars == <<dry_run>>
venueVars == <<market_resolved>>
nrVars == <<nr_available_capital, nr_active_positions, nr_exec, nr_sweep,
            nr_results, nr_ops>>
ynVars == <<yn, yn_ops>>
pairVars == <<pair_dry, pair_live, pair_ops>>
botVars == <<bot_running, bot_total_profit, bot_pc, bot_next, bot_iter_profit,
             bot_iterations>>
aggVars == <<agg_prices, agg_price_history, agg_impulse>>
rcVars == <<rc_market_resolved, rc_active_coverages, rc_exec, rc_result,
            rc_resolutions, rc_ops>>
stVars == <<st_inventory, st_last_fill, st_fills>>
cpVars == <<cp_initial_capital, cp_current_capital, cp_peak_capital, cp_total_profit, cp_trade_count, cp_win_count>>
bnVars == <<bn_running, bn_ws, bn_subscriptions, bn_reconnect_delay, bn_task,
            bn_redials, bn_wait, bn_delivered, bn_ops>>
exVars == <<ex_now, ex_callbacks, ex_price_history, ex_received, ex_raised, ex_pc>>
obVars == <<ob_bids, ob_asks, ob_price_history, ob_callbacks, ob_latest, ob_messages>>
rlVars == <<rl_tokens, rl_elapsed, rl_lock, rl_waiters, rl_request, rl_pc, rl_sleep>>
nmVars == <<nm_now, nm_rate_limit_timestamps, nm_sent, nm_held, nm_calls>>
ssVars == <<ss_pc, ss_running, ss_signalled, ss_polymarket, ss_connector, ss_iterations, ss_late>>
psVars == <<ps_monitored, ps_signals, ps_scans>>
osVars == <<os_pc, os_gaps, os_fresh>>
szVars == <<sz_signals, sz_scans>>
csVars == <<cs_outcome_data, cs_coverage, cs_signals, cs_scans>>
smVars == <<sm_active_orders, sm_orders, sm_handler, sm_ops>>
laVars == <<la_pc, la_min_price_deviation, la_pending_impulses, la_now, la_signals, la_read, la_scans>>
rtVars == <<rt_pc, rt_config, rt_attempt, rt_calls, rt_delays>>
czVars == <<cz_last, cz_calls>>
swVars == <<sw_sweeps>>
mxVars == <<mx_exchanges, mx_prices, mx_seen, mx_arb, mx_ops>>
vars == <<clientVars, venueVars, nrVars, ynVars, pairVars, botVars, aggVars, rcVars,
          stVars,
          cpVars,
          bnVars,
          exVars,
          obVars,
          rlVars,
          nmVars,
          ssVars,
          psVars,
          osVars,
          szVars,
          csVars,
          smVars,
          laVars,
          rtVars,
          czVars,
          swVars,
          mxVars>>

\* What the steps of one component leave alone.
restNR == <<clientVars, ynVars, pairVars, botVars, aggVars, rcVars, stVars, cpVars, bnVars, exVars, obVars, rlVars, nmVars, ssVars, psVars, osVars, szVars, csVars, smVars, laVars, rtVars, czVars, swVars, mxVars>>
restYN == <<clientVars, venueVars, nrVars, pairVars, botVars, aggVars, rcVars, stVars, cpVars, bnVars, exVars, obVars, rlVars, nmVars, ssVars, psVars, osVars, szVars, csVars, smVars, laVars, rtVars, czVars, swVars, mxVars>>
restPair == <<clientVars, venueVars, nrVars, ynVars, botVars, aggVars, rcVars, stVars, cpVars, bnVars, exVars, obVars, rlVars, nmVars, ssVars, psVars, osVars, szVars, csVars, smVars, laVars, rtVars, czVars, swVars, mxVars>>
restBot == <<clientVars, venueVars, nrVars, ynVars, pairVars, aggVars, rcVars, stVars, cpVars, bnVars, exVars, obVars, rlVars, nmVars, ssVars, psVars, osVars, szVars, csVars, smVars, laVars, rtVars, czVars, swVars, mxVars>>
restAgg == <<clientVars, venueVars, nrVars, ynVars, pairVars, botVars, rcVars, stVars, cpVars, bnVars, exVars, obVars, rlVars, nmVars, ssVars, psVars, osVars, szVars, csVars, smVars, laVars, rtVars, czVars, swVars, mxVars>>
restRC == <<clientVars, venueVars, nrVars, ynVars, pairVars, botVars, aggVars, stVars, cpVars, bnVars, exVars, obVars, rlVars, nmVars, ssVars, psVars, osVars, szVars, csVars, smVars, laVars, rtVars, czVars, swVars, mxVars>>
restST == <<clientVars, venueVars, nrVars, ynVars, pairVars, botVars, aggVars, rcVars, cpVars, bnVars, exVars, obVars, rlVars, nmVars, ssVars, psVars, osVars, szVars, csVars, smVars, laVars, rtVars, czVars, swVars, mxVars>>
restCP == <<clientVars, venueVars, nrVars, ynVars, pairVars, botVars, aggVars, rcVars, stVars, bnVars, exVars, obVars, rlVars, nmVars, ssVars, psVars, osVars, szVars, csVars, smVars, laVars, rtVars, czVars, swVars, mxVars>>
restBN == <<clientVars, venueVars, nrVars, ynVars, pairVars, botVars, aggVars, rcVars, stVars, cpVars, exVars, obVars, rlVars, nmVars, ssVars, psVars, osVars, szVars, csVars, smVars, laVars, rtVars, czVars, swVars, mxVars>>
restEX == <<clientVars, venueVars, nrVars, ynVars, pairVars, botVars, aggVars, rcVars, stVars, cpVars, bnVars, obVars, rlVars, nmVars, ssVars, psVars, osVars, szVars, csVars, smVars, laVars, rtVars, czVars, swVars, mxVars>>
restOB == <<clientVars, venueVars, nrVars, ynVars, pairVars, botVars, aggVars, rcVars, stVars, cpVars, bnVars, exVars, rlVars, nmVars, ssVars, psVars, osVars, szVars, csVars, smVars, laVars, rtVars, czVars, swVars, mxVars>>
restRL == <<clientVars, venueVars, nrVars, ynVars, pairVars, botVars, aggVars, rcVars, stVars, cpVars, bnVars, exVars, obVars, nmVars, ssVars, psVars, osVars, szVars, csVars, smVars, laVars, rtVars, czVars, swVars, mxVars>>
restNM == <<clientVars, venueVars, nrVars, ynVars, pairVars, botVars, aggVars, rcVars, stVars, cpVars, bnVars, exVars, obVars, rlVars, ssVars, psVars, osVars, szVars, csVars, smVars, laVars, rtVars, czVars, swVars, mxVars>>
restSS == <<clientVars, venueVars, nrVars, ynVars, pairVars, botVars, aggVars, rcVars, stVars, cpVars, bnVars, exVars, obVars, rlVars, nmVars, psVars, osVars, szVars, csVars, smVars, laVars, rtVars, czVars, swVars, mxVars>>
restPS == <<clientVars, venueVars, nrVars, ynVars, pairVars, botVars, aggVars, rcVars, stVars, cpVars, bnVars, exVars, obVars, rlVars, nmVars, ssVars, osVars, szVars, csVars, smVars, laVars, rtVars, czVars, swVars, mxVars>>
restOS == <<clientVars, venueVars, nrVars, ynVars, pairVars, botVars, aggVars, rcVars, stVars, cpVars, bnVars, exVars, obVars, rlVars, nmVars, ssVars, psVars, szVars, csVars, smVars, laVars, rtVars, czVars, swVars, mxVars>>
restOBStream == <<clientVars, venueVars, nrVars, ynVars, pairVars, botVars, aggVars, rcVars, stVars, cpVars, bnVars, exVars, rlVars, nmVars, ssVars, psVars, szVars, csVars, smVars, laVars, rtVars, czVars, swVars, mxVars>>
restSZ == <<clientVars, venueVars, nrVars, ynVars, pairVars, botVars, aggVars, rcVars, stVars, cpVars, bnVars, exVars, obVars, rlVars, nmVars, ssVars, psVars, osVars, csVars, smVars, laVars, rtVars, czVars, swVars, mxVars>>
restCS == <<clientVars, venueVars, nrVars, ynVars, pairVars, botVars, aggVars, rcVars, stVars, cpVars, bnVars, exVars, obVars, rlVars, nmVars, ssVars, psVars, osVars, szVars, smVars, laVars, rtVars, czVars, swVars, mxVars>>
restSM == <<clientVars, venueVars, nrVars, ynVars, pairVars, botVars, aggVars, rcVars, stVars, cpVars, bnVars, exVars, obVars, rlVars, nmVars, ssVars, psVars, osVars, szVars, csVars, laVars, rtVars, czVars, swVars, mxVars>>
restLA == <<clientVars, venueVars, nrVars, ynVars, pairVars, botVars, aggVars, rcVars, stVars, cpVars, bnVars, exVars, obVars, rlVars, nmVars, ssVars, psVars, osVars, szVars, csVars, smVars, rtVars, czVars, swVars, mxVars>>
restRT == <<clientVars, venueVars, nrVars, ynVars, pairVars, botVars, aggVars, rcVars, stVars, cpVars, bnVars, exVars, obVars, rlVars, nmVars, ssVars, psVars, osVars, szVars, csVars, smVars, laVars, czVars, swVars, mxVars>>
restCZ == <<clientVars, venueVars, nrVars, ynVars, pairVars, botVars, aggVars, rcVars, stVars, cpVars, bnVars, exVars, obVars, rlVars, nmVars, ssVars, psVars, osVars, szVars, csVars, smVars, laVars, rtVars, swVars, mxVars>>
restSW == <<clientVars, venueVars, nrVars, ynVars, pairVars, botVars, aggVars, rcVars, stVars, cpVars, bnVars, exVars, obVars, rlVars, nmVars, ssVars, psVars, osVars, szVars, csVars, smVars, laVars, rtVars, czVars, mxVars>>
restSweeps == <<clientVars, venueVars, ynVars, pairVars, botVars, aggVars, rcVars, stVars, cpVars, bnVars, exVars, obVars, rlVars, nmVars, ssVars, psVars, osVars, szVars, csVars, smVars, laVars, rtVars, czVars, mxVars>>
restMX == <<clientVars, venueVars, nrVars, ynVars, pairVars, botVars, aggVars, rcVars, stVars, cpVars, bnVars, exVars, obVars, rlVars, nmVars, ssVars, psVars, osVars, szVars, csVars, smVars, laVars, rtVars, czVars, swVars>>

---------------------------------------------------------------------------
(* Exact arithmetic on rationals <<numerator, denominator>>.               *)

Abs(x) == IF x < 0 THEN -x ELSE x

RECURSIVE GCD(_, _)
GCD(a, b) == IF b = 0 THEN a ELSE GCD(b, a % b)

Norm(n, d) ==
    LET s == IF d < 0 THEN -1 ELSE 1
        g == GCD(Abs(n), Abs(d))
    IN  <<(s * n) \div g, (s * d) \div g>>

Rat(n, d) == Norm(n, d)
RInt(k) == <<k, 1>>
RZero == <<0, 1>>
ROne == <<1, 1>>
RAdd(a, b) == Norm(a[1] * b[2] + b[1] * a[2], a[2] * b[2])
RSub(a, b) == Norm(a[1] * b[2] - b[1] * a[2], a[2] * b[2])
RMul(a, b) == Norm(a[1] * b[1], a[2] * b[2])
RDiv(a, b) == Norm(a[1] * b[2], a[2] * b[1])
RNeg(a) == <<-a[1], a[2]>>
RLt(a, b) == a[1] * b[2] < b[1] * a[2]
RLe(a, b) == a[1] * b[2] <= b[1] * a[2]
RMin(a, b) == IF RLe(a, b) THEN a ELSE b
RMax(a, b) == IF RLe(a, b) THEN b ELSE a

---------------------------------------------------------------------------
(* The venue and PolymarketClient.                                         *)

Markets == {"m1", "m2"}
Outcomes == {"YES", "NO"}
NoValue == [none |-> TRUE]

\* An OrderResponse: status, filled_amount, avg_price.
OrderResponse(st, filled, avg) ==
    [status |-> st, filled_amount |-> filled, avg_price |-> avg]

\* _request raising (aiohttp.ClientError re-raised by PolymarketClient._request)
Raised == OrderResponse("raised", RZero, RZero)

\* Price improvement a live venue may give on a limit order: a BUY fills at or
\* below its limit, a SELL at or above it.
BuyImprovement == {ROne, Rat(4, 5)}
SellImprovement == {ROne, Rat(5, 4)}

\* What a live venue may answer to POST /order.  FOK fills in full or not at
\* all; GTC and IOC may also fill in part.
VenueResponses(side, price, size, order_type) ==
    LET imp == IF side = "BUY" THEN BuyImprovement ELSE SellImprovement
        full == {OrderResponse("filled", size, RMul(price, f)) : f \in imp}
        part == IF order_type = "FOK" THEN {}
                ELSE {OrderResponse("partial", RMul(size, Rat(1, 2)), RMul(price, f)) :
                        f \in imp}
        none == {OrderResponse("rejected", RZero, price)}
    IN  full \cup part \cup none \cup {Raised}

\* PolymarketClient.place_order: the set of responses the call may return.
place_order(dry, side, price, size, order_type) ==
    IF dry
    THEN {OrderResponse("simulated", size, price)}
    ELSE VenueResponses(side, price, size, order_type)

\* The venue resolves a market: GET /markets/{id} then answers resolved = True
\* with resolvedOutcome = w.
VenueResolve(m, w) ==
    /\ market_resolved[m] = "open"
    /\ market_resolved' = [market_resolved EXCEPT ![m] = w]

---------------------------------------------------------------------------
(* NearResolvedSnipingStrategy (strategies/near_resolved.py).              *)
(* _total_invested and _total_returned are write-only reporting sums and   *)
(* are left out; a position keeps the fields the code reads back.          *)

MaxOps == 3

Tasks == {"t1", "t2"}
Sweepers == {"s1"}
\* with a second caller of check_resolutions(), for the sweeps that overlap
AllSweepers == Sweepers \cup {"s2"}
Idle == [pc |-> "idle"]

CapitalAmounts == {RZero, RInt(10)}
SignalPrices == {Rat(1, 2)}
SignalSizes == {RInt(4), RInt(40)}
BidPrices == {Rat(1, 2), ROne}

\* A TradeSignal, reduced to the fields execute() reads.
Signals ==
    [market_id : Markets, token_id : Outcomes, price : SignalPrices, size : SignalSizes]

\* StrategyBase.validate_signal (strategies/base.py is not in the source tree):
\* a signal is actionable only with a positive size and price.
validate_signal(sig) == RLt(RZero, sig.size) /\ RLt(RZero, sig.price)

NRPosition(token, shares, avg, cost) ==
    [token_id |-> token, shares |-> shares, avg_price |-> avg, cost |-> cost]

\* execute(), lines 168-173: the order size after the capital check.
SnipeOrderSizeUnchecked(size, price, available) == size
SnipeOrderSize(size, price, available) ==
    IF RLt(available, RMul(size, price)) THEN RDiv(available, price) ELSE size

FillStatuses == {"simulated", "filled", "partial"}
CloseStatuses == {"filled", "simulated"}

NRQuiescent ==
    /\ \A t \in Tasks : nr_exec[t] = Idle
    /\ \A s \in AllSweepers : nr_sweep[s] = {}

\* set_capital(amount)
NRSetCapital(a) ==
    /\ nr_ops < MaxOps
    /\ nr_ops' = nr_ops + 1
    /\ nr_available_capital' = a
    /\ UNCHANGED <<nr_active_positions, nr_exec, nr_sweep, nr_results>>

\* execute(signal) up to `await self.polymarket.place_order(...)`.
NRExecuteBegin(t, sig) ==
    /\ nr_ops < MaxOps
    /\ nr_exec[t] = Idle
    /\ validate_signal(sig)
    /\ nr_ops' = nr_ops + 1
    /\ nr_exec' = [nr_exec EXCEPT ![t] =
            [pc |-> "place_order", market_id |-> sig.market_id,
             token_id |-> sig.token_id, price |-> sig.price,
             size |-> SnipeOrderSize(sig.size, sig.price, nr_available_capital)]]
    /\ UNCHANGED <<nr_available_capital, nr_active_positions, nr_sweep, nr_results>>

\* execute(signal) from the return of place_order to its own return.
NRExecuteFinish(t, order) ==
    /\ nr_exec[t] # Idle
    /\ order \in place_order(dry_run, "BUY", nr_exec[t].price, nr_exec[t].size, "GTC")
    /\ LET e == nr_exec[t]
           actual_cost == RMul(order.filled_amount, order.avg_price)
       IN  IF order.status \in FillStatuses
           THEN /\ nr_available_capital' = RSub(nr_available_capital, actual_cost)
                /\ nr_active_positions' = [nr_active_positions EXCEPT ![e.market_id] =
                       NRPosition(e.token_id, order.filled_amount, order.avg_price,
                                  actual_cost)]
           ELSE UNCHANGED <<nr_available_capital, nr_active_positions>>
    /\ nr_exec' = [nr_exec EXCEPT ![t] = Idle]
    /\ UNCHANGED <<nr_sweep, nr_results, nr_ops>>

\* close_position(market_id): the market sell of the whole position.  bid is
\* the best bid get_price returned; place_market_order sells at it, FOK.
NRClosePosition(m, bid, order) ==
    /\ nr_ops < MaxOps
    /\ nr_active_positions[m] # NoValue
    /\ order \in place_order(dry_run, "SELL", bid, nr_active_positions[m].shares, "FOK")
    /\ order # Raised
    /\ nr_ops' = nr_ops + 1
    /\ IF order.status \in CloseStatuses
       THEN /\ nr_available_capital' =
                 RAdd(nr_available_capital, RMul(order.filled_amount, order.avg_price))
            /\ nr_active_positions' = [nr_active_positions EXCEPT ![m] = NoValue]
       ELSE UNCHANGED <<nr_available_capital, nr_active_positions>>
    /\ UNCHANGED <<nr_exec, nr_sweep, nr_results>>

\* check_resolutions(), line 312: the snapshot list(self._active_positions.items()).
NRSweepSnapshot(s) ==
    /\ nr_sweep[s] = {}
    /\ \E m \in Markets : nr_active_positions[m] # NoValue
    /\ nr_sweep' = [nr_sweep EXCEPT ![s] =
            {<<m, nr_active_positions[m]>> :
                m \in {k \in Markets : nr_active_positions[k] # NoValue}}]
    /\ UNCHANGED <<nr_available_capital, nr_active_positions, nr_exec, nr_results>>
NRSweepBegin(s) ==
    /\ nr_ops < MaxOps
    /\ nr_ops' = nr_ops + 1
    /\ NRSweepSnapshot(s)

\* check_resolutions(), lines 321-337: whether the position won, and what is paid.
PositionWon(position, winning_outcome) == TRUE
ResolutionPayout(position, won) == IF won THEN position.shares ELSE RZero
ResolutionProfit(position, won) ==
    IF won THEN RSub(position.shares, position.cost) ELSE RNeg(position.cost)

\* One iteration of the loop of check_resolutions(): get_market(market_id)
\* returns (or raises, failed = TRUE) and the body runs to the next await.
\* The snapshot is visited in dict order; any order is allowed here.
NRSweepStep(s, item, failed) ==
    /\ item \in nr_sweep[s]
    /\ nr_sweep' = [nr_sweep EXCEPT ![s] = @ \ {item}]
    /\ LET m == item[1]
           position == item[2]
           won == PositionWon(position, market_resolved[m])
       IN  IF failed \/ market_resolved[m] = "open"
           THEN UNCHANGED <<nr_available_capital, nr_active_positions, nr_results>>
           ELSE /\ nr_available_capital' =
                     RAdd(nr_available_capital, ResolutionPayout(position, won))
                \* del self._active_positions[market_id] raises KeyError when the
                \* position is gone; the except clause swallows it.
                /\ IF nr_active_positions[m] # NoValue
                   THEN /\ nr_active_positions' =
                             [nr_active_positions EXCEPT ![m] = NoValue]
                        /\ nr_results' = [nr_results EXCEPT ![m] =
                               [won |-> won,
                                profit_loss |-> ResolutionProfit(position, won),
                                payout |-> ResolutionPayout(position, won),
                                token_id |-> position.token_id,
                                cost |-> position.cost,
                                winning_outcome |-> market_resolved[m]]]
                   ELSE UNCHANGED <<nr_active_positions, nr_results>>
    /\ UNCHANGED <<nr_exec, nr_ops>>

InitClient == dry_run \in BOOLEAN
InitVenue == market_resolved = [m \in Markets |-> "open"]
InitNR ==
    /\ nr_available_capital = RZero
    /\ nr_active_positions = [m \in Markets |-> NoValue]
    /\ nr_exec = [t \in Tasks |-> Idle]
    /\ nr_sweep = [s \in AllSweepers |-> {}]
    /\ nr_results = [m \in Markets |-> NoValue]
    /\ nr_ops = 0

InFlight == {t \in Tasks : nr_exec[t] # Idle}
Sweeping == {s \in Sweepers : nr_sweep[s] # {}}

SetCapital == \E a \in CapitalAmounts : NRSetCapital(a)
Execute == \E t \in Tasks, sig \in Signals : NRExecuteBegin(t, sig)
ExecuteReturn ==
    \E t \in InFlight :
       \E order \in place_order(dry_run, "BUY", nr_exec[t].price, nr_exec[t].size, "GTC") :
          NRExecuteFinish(t, order)
ClosePosition ==
    \E m \in {k \in Markets : nr_active_positions[k] # NoValue}, bid \in BidPrices :
       \E order \in place_order(dry_run, "SELL", bid, nr_active_positions[m].shares, "FOK") :
          NRClosePosition(m, bid, order)
CheckResolutions == \E s \in Sweepers : NRSweepBegin(s)
CheckResolutionsStep ==
    \E s \in Sweeping : \E item \in nr_sweep[s], failed \in BOOLEAN :
       NRSweepStep(s, item, failed)
MarketResolves == \E m \in Markets, w \in Outcomes : VenueResolve(m, w)

\* The operations as the bot drives them: one call at a time, each run to its
\* return before the next starts.
NextNearResolved ==
    \/ NRQuiescent /\ SetCapital /\ UNCHANGED <<venueVars, restNR>>
    \/ NRQuiescent /\ Execute /\ UNCHANGED <<venueVars, restNR>>
    \/ NRQuiescent /\ ClosePosition /\ UNCHANGED <<venueVars, restNR>>
    \/ NRQuiescent /\ CheckResolutions /\ UNCHANGED <<venueVars, restNR>>
    \/ ExecuteReturn /\ UNCHANGED <<venueVars, restNR>>
    \/ CheckResolutionsStep /\ UNCHANGED <<venueVars, restNR>>
    \/ MarketResolves /\ UNCHANGED <<nrVars, restNR>>

\* Callers that let execute() and check_resolutions() calls overlap at their
\* await points.
NextNearResolvedOverlap ==
    \/ NRQuiescent /\ SetCapital /\ UNCHANGED <<venueVars, restNR>>
    \/ Execute /\ UNCHANGED <<venueVars, restNR>>
    \/ NRQuiescent /\ ClosePosition /\ UNCHANGED <<venueVars, restNR>>
    \/ CheckResolutions /\ UNCHANGED <<venueVars, restNR>>
    \/ ExecuteReturn /\ UNCHANGED <<venueVars, restNR>>
    \/ CheckResolutionsStep /\ UNCHANGED <<venueVars, restNR>>
    \/ MarketResolves /\ UNCHANGED <<nrVars, restNR>>

---------------------------------------------------------------------------
(* YesNoArbitrageStrategy (strategies/yes_no_arbitrage.py).                *)
(* A world is the strategy's state together with the account it trades on: *)
(*   active_arbs  _active_arbs, in order                                   *)
(*   result       the StrategyResult of the last execute()                 *)
(*   positions    the shares the venue holds for the account, per token    *)

MaxYNOps == 3

Tokens == Markets \X Outcomes

\* config.get('max_position_size', 10000), here 10 dollars.
YNMaxPosition == RInt(10)

YNMarkets == {"m1"}

BuyBothSignals(ms) ==
    [arb_type : {"BUY_BOTH"}, market_id : ms, yes_price : {Rat(2, 5)},
     no_price : {Rat(1, 2)}, size : {RInt(5), RInt(20)}]
SellBothSignals(ms) ==
    [arb_type : {"SELL_BOTH"}, market_id : ms, yes_price : {Rat(3, 5)},
     no_price : {Rat(1, 2)}, size : {YNMaxPosition}]
ArbSignals(ms) == BuyBothSignals(ms) \cup SellBothSignals(ms)

NoResult == [success |-> FALSE, profit_loss |-> RZero, trades_executed |-> 0,
             errors |-> {}]
Failure(errs) == [NoResult EXCEPT !.errors = errs]
Success(profit, trades) ==
    [success |-> TRUE, profit_loss |-> profit, trades_executed |-> trades, errors |-> {}]

NewWorld ==
    [active_arbs |-> <<>>, result |-> NoResult, positions |-> [t \in Tokens |-> RZero]]

\* The venue's book-keeping of an order it answered: only a fill moves shares
\* (a dry-run order never reaches the venue).
VenueFill(positions, token, side, order) ==
    IF order.status \in {"filled", "partial"}
    THEN [positions EXCEPT ![token] =
            IF side = "BUY" THEN RAdd(@, order.filled_amount)
            ELSE RSub(@, order.filled_amount)]
    ELSE positions

\* PolymarketClient.get_positions: the tokens held, none in dry-run.
get_positions(dry, positions) ==
    IF dry THEN {} ELSE {t \in Tokens : RLt(RZero, positions[t])}

OrderOk(order) == order.status \in {"filled", "simulated"}

\* _execute_buy_both, line 252
PairsToBuy(sig) ==
    RMin(sig.size, RDiv(YNMaxPosition, RAdd(sig.yes_price, sig.no_price)))

\* _execute_buy_both, lines 279-281
ArbProfitYesLegOnly(yes_order, no_order) ==
    RSub(RMin(yes_order.filled_amount, no_order.filled_amount),
         RMul(yes_order.filled_amount, yes_order.avg_price))
ArbProfit(yes_order, no_order) ==
    RSub(RMin(yes_order.filled_amount, no_order.filled_amount),
         RAdd(RMul(yes_order.filled_amount, yes_order.avg_price),
              RMul(no_order.filled_amount, no_order.avg_price)))

\* _execute_buy_both with the answers to its two orders.  When the first
\* place_order raises, the second order is never placed.
ExecuteBuyBoth(w, sig, yes_order, no_order) ==
    LET yes_token == <<sig.market_id, "YES">>
        no_token == <<sig.market_id, "NO">>
        after_yes == VenueFill(w.positions, yes_token, "BUY", yes_order)
        after_no == VenueFill(after_yes, no_token, "BUY", no_order)
        yes_cost == RMul(yes_order.filled_amount, yes_order.avg_price)
        no_cost == RMul(no_order.filled_amount, no_order.avg_price)
    IN  IF yes_order = Raised
        THEN [w EXCEPT !.result = Failure({"raised"})]
        ELSE IF no_order = Raised
        THEN [w EXCEPT !.result = Failure({"raised"}), !.positions = after_yes]
        ELSE IF OrderOk(yes_order) /\ OrderOk(no_order)
        THEN [active_arbs |-> Append(w.active_arbs,
                 [market_id |-> sig.market_id,
                  yes_shares |-> yes_order.filled_amount,
                  no_shares |-> no_order.filled_amount,
                  total_cost |-> RAdd(yes_cost, no_cost),
                  expected_profit |-> ArbProfit(yes_order, no_order)]),
              result |-> Success(ArbProfit(yes_order, no_order), 2),
              positions |-> after_no]
        ELSE [w EXCEPT !.positions = after_no,
                       !.result = Failure(
                           (IF OrderOk(yes_order) THEN {} ELSE {"yes"}) \cup
                           (IF OrderOk(no_order) THEN {} ELSE {"no"}))]

\* _execute_sell_both, lines 350-373: the size both legs sell, 0 when a leg is
\* not among the positions get_positions returned.
SellAmount(dry, w, sig) ==
    LET held == get_positions(dry, w.positions)
        yes_token == <<sig.market_id, "YES">>
        no_token == <<sig.market_id, "NO">>
    IN  IF yes_token \in held /\ no_token \in held
        THEN RMin(w.positions[yes_token], w.positions[no_token])
        ELSE RZero

HasPair(dry, w, sig) ==
    /\ <<sig.market_id, "YES">> \in get_positions(dry, w.positions)
    /\ <<sig.market_id, "NO">> \in get_positions(dry, w.positions)

\* _execute_sell_both with the answers to its two orders.
ExecuteSellBoth(dry, w, sig, yes_order, no_order) ==
    LET yes_token == <<sig.market_id, "YES">>
        no_token == <<sig.market_id, "NO">>
        after_yes == VenueFill(w.positions, yes_token, "SELL", yes_order)
        after_no == VenueFill(after_yes, no_token, "SELL", no_order)
        proceeds == RAdd(RMul(yes_order.filled_amount, yes_order.avg_price),
                         RMul(no_order.filled_amount, no_order.avg_price))
    IN  IF ~HasPair(dry, w, sig)
        THEN [w EXCEPT !.result = Failure({"no positions"})]
        ELSE IF yes_order = Raised
        THEN [w EXCEPT !.result = Failure({"raised"})]
        ELSE IF no_order = Raised
        THEN [w EXCEPT !.result = Failure({"raised"}), !.positions = after_yes]
        ELSE IF OrderOk(yes_order) /\ OrderOk(no_order)
        THEN [w EXCEPT !.positions = after_no,
                       !.result = Success(
                           RSub(proceeds,
                                RMin(yes_order.filled_amount, no_order.filled_amount)), 2)]
        ELSE [w EXCEPT !.positions = after_no, !.result = Failure({"sell"})]

\* The size and side of the two orders execute() places for a signal.
ArbOrderSide(sig) == IF sig.arb_type = "BUY_BOTH" THEN "BUY" ELSE "SELL"
ArbOrderSize(dry, w, sig) ==
    IF sig.arb_type = "BUY_BOTH" THEN PairsToBuy(sig) ELSE SellAmount(dry, w, sig)

\* execute(signal), lines 187-237
YNExecuteWorld(dry, w, sig, yes_order, no_order) ==
    IF sig.arb_type = "BUY_BOTH"
    THEN ExecuteBuyBoth(w, sig, yes_order, no_order)
    ELSE ExecuteSellBoth(dry, w, sig, yes_order, no_order)

YNExecute(sig, yes_order, no_order) ==
    /\ yn_ops < MaxYNOps
    /\ yn_ops' = yn_ops + 1
    /\ yes_order \in place_order(dry_run, ArbOrderSide(sig), sig.yes_price,
                                 ArbOrderSize(dry_run, yn, sig), "FOK")
    /\ no_order \in place_order(dry_run, ArbOrderSide(sig), sig.no_price,
                                ArbOrderSize(dry_run, yn, sig), "FOK")
    /\ yn' = YNExecuteWorld(dry_run, yn, sig, yes_order, no_order)

InitYN == yn = NewWorld /\ yn_ops = 0

YesNoExecute ==
    \E sig \in ArbSignals(YNMarkets) :
       \E yes_order \in place_order(dry_run, ArbOrderSide(sig), sig.yes_price,
                                    ArbOrderSize(dry_run, yn, sig), "FOK"),
          no_order \in place_order(dry_run, ArbOrderSide(sig), sig.no_price,
                                   ArbOrderSize(dry_run, yn, sig), "FOK") :
          YNExecute(sig, yes_order, no_order)

NextYesNo ==
    \/ YesNoExecute /\ UNCHANGED restYN

---------------------------------------------------------------------------
(* The same signals fed to a dry-run bot and to a live bot whose venue     *)
(* fills every order in full at its limit price.                           *)

MaxPairOps == 3

\* A live venue that fills every order in full at its limit price.
IdealFill(price, size) == OrderResponse("filled", size, price)
Simulated(price, size) == OrderResponse("simulated", size, price)

PairExecute(sig) ==
    /\ pair_ops < MaxPairOps
    /\ pair_ops' = pair_ops + 1
    /\ pair_dry' = YNExecuteWorld(TRUE, pair_dry, sig,
            Simulated(sig.yes_price, ArbOrderSize(TRUE, pair_dry, sig)),
            Simulated(sig.no_price, ArbOrderSize(TRUE, pair_dry, sig)))
    /\ pair_live' = YNExecuteWorld(FALSE, pair_live, sig,
            IdealFill(sig.yes_price, ArbOrderSize(FALSE, pair_live, sig)),
            IdealFill(sig.no_price, ArbOrderSize(FALSE, pair_live, sig)))

InitPair == pair_dry = NewWorld /\ pair_live = NewWorld /\ pair_ops = 0

DryAndLiveExecute == \E sig \in ArbSignals(Markets) : PairExecute(sig)

NextDryVsLive ==
    \/ DryAndLiveExecute /\ UNCHANGED restPair

---------------------------------------------------------------------------
(* WanchaiBot (bot.py): run(), run_once(), _check_risk_limits().           *)
(* strategy.run_once() (StrategyBase, not in the source tree) scans and    *)
(* executes the strategy's signals; the bot sees only the StrategyResult   *)
(* it returns, or the exception it raises.  _trade_count is a reporting    *)
(* sum and is left out.                                                    *)

MaxIterations == 2

\* risk_config.get('max_daily_loss', 5000)
max_daily_loss == 5000

\* The strategies run_once() iterates over, 'compounding' skipped:
\* latency_arbitrage, near_resolved, yes_no_arb, spread_trading, range_coverage.
NumStrategies == 5

\* result.profit_loss of one strategy.run_once(), in dollars.
StrategyProfits == {-3000, -2000, 0, 1000}

\* _check_risk_limits()
CheckRiskLimits(total_profit) == ~(total_profit < -max_daily_loss)

\* The SIGINT/SIGTERM handler of run().
BotSignalHandler ==
    /\ bot_pc # "stopped"
    /\ bot_running
    /\ bot_running' = FALSE
    /\ UNCHANGED <<bot_total_profit, bot_pc, bot_next, bot_iter_profit, bot_iterations>>

\* run(), lines 293-300: the loop test, the duration check, the call of run_once().
BotLoopHead(duration_reached) ==
    /\ bot_pc = "loop"
    /\ IF ~bot_running \/ duration_reached \/ bot_iterations = MaxIterations
       THEN \* finally: shutdown()
            /\ bot_pc' = "stopped"
            /\ bot_running' = FALSE
            /\ UNCHANGED <<bot_next, bot_iter_profit, bot_iterations>>
       ELSE /\ bot_pc' = "run_once"
            /\ bot_next' = 1
            /\ bot_iter_profit' = 0
            /\ bot_iterations' = bot_iterations + 1
            /\ UNCHANGED bot_running
    /\ UNCHANGED bot_total_profit

\* run_once(), lines 221-241: one strategy's run_once() returned a result
\* (raised = FALSE) or raised.
BotStrategyRunOnce(raised, profit_loss) ==
    /\ bot_pc = "run_once"
    /\ bot_next <= NumStrategies
    /\ bot_next' = bot_next + 1
    /\ bot_iter_profit' = IF raised THEN bot_iter_profit ELSE bot_iter_profit + profit_loss
    /\ UNCHANGED <<bot_running, bot_total_profit, bot_pc, bot_iterations>>

\* run_once(), lines 243-249, and run(), lines 302-313: the totals, the risk
\* check and the sleep.
BotIterationEnd ==
    /\ bot_pc = "run_once"
    /\ bot_next > NumStrategies
    /\ bot_total_profit' = bot_total_profit + bot_iter_profit
    /\ IF CheckRiskLimits(bot_total_profit')
       THEN bot_pc' = "loop" /\ UNCHANGED bot_running
       ELSE bot_pc' = "stopped" /\ bot_running' = FALSE
    /\ UNCHANGED <<bot_next, bot_iter_profit, bot_iterations>>

InitBot ==
    /\ bot_running = TRUE
    /\ bot_total_profit = 0
    /\ bot_pc = "loop"
    /\ bot_next = 1
    /\ bot_iter_profit = 0
    /\ bot_iterations = 0

BotLoop == \E duration_reached \in BOOLEAN : BotLoopHead(duration_reached)
BotStrategy ==
    \E raised \in BOOLEAN, profit_loss \in StrategyProfits :
       BotStrategyRunOnce(raised, profit_loss)

NextBot ==
    \/ BotSignalHandler /\ UNCHANGED restBot
    \/ BotLoop /\ UNCHANGED restBot
    \/ BotStrategy /\ UNCHANGED restBot
    \/ BotIterationEnd /\ UNCHANGED restBot

---------------------------------------------------------------------------
(* PriceAggregator (exchanges/aggregator.py): _on_price_update and         *)
(* _check_impulse for one symbol fed by one exchange.  With a single       *)
(* exchange _check_exchange_arbitrage returns at once, and the confidence  *)
(* of an impulse (the exchanges' momentum) does not decide whether it is   *)
(* emitted.  Timestamps are in milliseconds.                               *)

MaxUpdates == 3

\* self._impulse_threshold = 0.02
_impulse_threshold == Rat(2, 100)

\* self._impulse_window_ms = 60000
_impulse_window_ms == 60000

\* self._history_size = 1000
_history_size == 1000

UpdateTimestamps == {0, 30000, 60000, 90000}
UpdatePrices == {100, 101, 102, 103}
PriceUpdates == [timestamp : UpdateTimestamps, price : UpdatePrices]

RAbs(a) == <<Abs(a[1]), a[2]>>

\* deque(maxlen=self._history_size).append(entry)
DequeAppend(history, entry) ==
    IF Len(history) = _history_size
    THEN Append(Tail(history), entry)
    ELSE Append(history, entry)

\* _check_impulse, lines 185-192: the first entry, walking the history from
\* its oldest end, that is at least the window old; the oldest entry if none.
OldPrice(history, update) ==
    LET window_start == update.timestamp - _impulse_window_ms
        old == {j \in 1..Len(history) : history[j].timestamp <= window_start}
    IN  IF old = {}
        THEN history[1].price
        ELSE history[CHOOSE j \in old : \A k \in old : j <= k].price

\* (update.price - old_price) / old_price
ChangePct(price, old_price) == RDiv(RSub(RInt(price), RInt(old_price)), RInt(old_price))

\* _check_impulse: the impulse emitted for the update, or NoValue.
CheckImpulse(history, update) ==
    IF Len(history) < 2
    THEN NoValue
    ELSE LET old_price == OldPrice(history, update)
             change_pct == ChangePct(update.price, old_price)
         IN  IF RLe(_impulse_threshold, RAbs(change_pct))
             THEN [direction |-> IF RLt(RZero, change_pct) THEN "up" ELSE "down",
                   change_pct |-> change_pct,
                   from_price |-> old_price,
                   to_price |-> update.price,
                   timestamp |-> update.timestamp]
             ELSE NoValue

\* _on_price_update
AggOnPriceUpdate(update) ==
    /\ Len(agg_price_history) < MaxUpdates
    /\ agg_prices' = update
    /\ agg_price_history' = DequeAppend(agg_price_history, update)
    /\ agg_impulse' = CheckImpulse(agg_price_history', update)

InitAgg ==
    /\ agg_prices = NoValue
    /\ agg_price_history = <<>>
    /\ agg_impulse = NoValue

OnPriceUpdate == \E update \in PriceUpdates : AggOnPriceUpdate(update)

NextAggregator ==
    \/ OnPriceUpdate /\ UNCHANGED restAgg

---------------------------------------------------------------------------
(* RangeCoverageStrategy (strategies/range_coverage.py): execute and        *)
(* check_resolutions on one three-outcome market.  execute is cut at each   *)
(* await of place_order; the bot awaits one strategy call at a time, so     *)
(* check_resolutions runs between two execute calls.                        *)

MaxRCOps == 2

RCMarkets == {"r1"}
RCOutcomes == <<"a", "b", "c">>
RCOutcomeNames == {RCOutcomes[k] : k \in 1..Len(RCOutcomes)}

\* config.get('max_position_size', 5000), scaled down.
RCMaxPosition == RInt(10)

\* signal.metadata['coverage'] as _find_optimal_coverage builds it: the
\* outcomes in descending price, their prices summing to total_cost.
RCCoverage ==
    [outcomes |-> <<[name |-> "a", price |-> Rat(2, 5)],
                    [name |-> "b", price |-> Rat(1, 5)],
                    [name |-> "c", price |-> Rat(1, 10)]>>,
     total_cost |-> Rat(7, 10)]

RCSignalSizes == {RInt(10), RInt(20)}
RCSignals ==
    [market_id : RCMarkets, price : {RCCoverage.total_cost}, size : RCSignalSizes,
     coverage : {RCCoverage}]

\* execute(), lines 194-203: the shares to buy of one outcome.
RCSharesToBuy(sig, outcome) ==
    LET total_budget == RMin(RMul(sig.size, sig.coverage.total_cost), RCMaxPosition)
        weight == RDiv(outcome.price, sig.coverage.total_cost)
        outcome_budget == RMul(total_budget, weight)
    IN  RDiv(outcome_budget, outcome.price)

RECURSIVE RCMinShares(_)
RCMinShares(orders) ==
    IF Len(orders) = 1
    THEN orders[1].shares
    ELSE RMin(orders[1].shares, RCMinShares(Tail(orders)))

\* execute(), lines 160-188.
RCExecuteBegin(sig) ==
    /\ rc_exec = Idle
    /\ rc_ops < MaxRCOps
    /\ rc_ops' = rc_ops + 1
    /\ IF ~validate_signal(sig)
       THEN rc_result' = Failure({"Invalid signal"}) /\ UNCHANGED rc_exec
       ELSE IF Len(sig.coverage.outcomes) = 0
       THEN rc_result' = Failure({"No outcomes in coverage"}) /\ UNCHANGED rc_exec
       ELSE /\ rc_exec' = [pc |-> "order", signal |-> sig, i |-> 1,
                           orders_executed |-> <<>>, total_cost |-> RZero]
            /\ UNCHANGED rc_result
    /\ UNCHANGED <<rc_market_resolved, rc_active_coverages, rc_resolutions>>

\* execute(), lines 205-287: place_order for outcome i returned (or raised);
\* after the last outcome the coverage is recorded.
RCOrderReturn(order) ==
    LET sig == rc_exec.signal
        outcome == sig.coverage.outcomes[rc_exec.i]
        accepted == order.status \in {"filled", "simulated", "partial"}
        actual_cost == RMul(order.filled_amount, order.avg_price)
        total_cost == IF accepted THEN RAdd(rc_exec.total_cost, actual_cost)
                      ELSE rc_exec.total_cost
        orders_executed ==
            IF accepted
            THEN Append(rc_exec.orders_executed,
                        [outcome |-> outcome.name, shares |-> order.filled_amount,
                         price |-> order.avg_price, cost |-> actual_cost])
            ELSE rc_exec.orders_executed
        min_shares == RCMinShares(orders_executed)
        expected_profit == RSub(min_shares, total_cost)
    IN  /\ rc_exec # Idle
        /\ IF order = Raised
           THEN /\ rc_result' = Failure({"exception"})
                /\ rc_exec' = Idle
                /\ UNCHANGED rc_active_coverages
           ELSE IF rc_exec.i < Len(sig.coverage.outcomes)
           THEN /\ rc_exec' = [rc_exec EXCEPT !.i = @ + 1,
                                              !.orders_executed = orders_executed,
                                              !.total_cost = total_cost]
                /\ UNCHANGED <<rc_result, rc_active_coverages>>
           ELSE IF Len(orders_executed) = 0
           THEN /\ rc_result' = Failure({"No orders filled"})
                /\ rc_exec' = Idle
                /\ UNCHANGED rc_active_coverages
           ELSE /\ rc_active_coverages' =
                     [rc_active_coverages EXCEPT ![sig.market_id] =
                         [orders |-> orders_executed, total_cost |-> total_cost,
                          min_shares |-> min_shares,
                          expected_profit |-> expected_profit]]
                /\ rc_result' = Success(expected_profit, Len(orders_executed))
                /\ rc_exec' = Idle
        /\ UNCHANGED <<rc_market_resolved, rc_resolutions, rc_ops>>

\* check_resolutions(): get_market raises for the markets in failed.
RCCheckResolutions(failed) ==
    LET resolved == {m \in RCMarkets \ failed :
                        /\ rc_active_coverages[m] # NoValue
                        /\ rc_market_resolved[m] # "open"}
    IN  /\ rc_exec = Idle
        /\ \E m \in RCMarkets : rc_active_coverages[m] # NoValue
        /\ rc_active_coverages' =
              [m \in RCMarkets |-> IF m \in resolved THEN NoValue
                                   ELSE rc_active_coverages[m]]
        /\ rc_resolutions' =
              [m \in RCMarkets |->
                  IF m \in resolved
                  THEN [payout |-> rc_active_coverages[m].min_shares,
                        profit_loss |-> RSub(rc_active_coverages[m].min_shares,
                                             rc_active_coverages[m].total_cost),
                        coverage |-> rc_active_coverages[m],
                        winner |-> rc_market_resolved[m]]
                  ELSE rc_resolutions[m]]
        /\ UNCHANGED <<rc_market_resolved, rc_exec, rc_result, rc_ops>>

\* The venue resolves the market to outcome w.
RCVenueResolve(m, w) ==
    /\ rc_market_resolved[m] = "open"
    /\ rc_market_resolved' = [rc_market_resolved EXCEPT ![m] = w]
    /\ UNCHANGED <<rc_active_coverages, rc_exec, rc_result, rc_resolutions, rc_ops>>

InitRC ==
    /\ rc_market_resolved = [m \in RCMarkets |-> "open"]
    /\ rc_active_coverages = [m \in RCMarkets |-> NoValue]
    /\ rc_exec = Idle
    /\ rc_result = NoResult
    /\ rc_resolutions = [m \in RCMarkets |-> NoValue]
    /\ rc_ops = 0

RCExecute == \E sig \in RCSignals : RCExecuteBegin(sig)
RCExecuteOrder ==
    /\ rc_exec # Idle
    /\ \E order \in place_order(dry_run, "BUY",
                                rc_exec.signal.coverage.outcomes[rc_exec.i].price,
                                RCSharesToBuy(rc_exec.signal,
                                    rc_exec.signal.coverage.outcomes[rc_exec.i]),
                                "GTC") :
          RCOrderReturn(order)
RCResolutions == \E failed \in SUBSET RCMarkets : RCCheckResolutions(failed)
RCMarketResolves == \E m \in RCMarkets, w \in RCOutcomeNames : RCVenueResolve(m, w)

NextRangeCoverage ==
    \/ RCExecute /\ UNCHANGED restRC
    \/ RCExecuteOrder /\ UNCHANGED restRC
    \/ RCResolutions /\ UNCHANGED restRC
    \/ RCMarketResolves /\ UNCHANGED restRC

---------------------------------------------------------------------------
(* SpreadTradingStrategy (strategies/spread_trading.py): update_inventory  *)
(* on the inventory of one token.                                          *)

MaxFills == 4

FillSides == {"BUY", "SELL"}
FillSizes == {RInt(5), RInt(10)}
FillPrices == {Rat(2, 5), Rat(3, 5)}

\* {'size': 0, 'avg_price': 0, 'realized_pnl': 0}
NewInventory == [size |-> RZero, avg_price |-> RZero, realized_pnl |-> RZero]

\* update_inventory, the BUY branch (avg_price over the old and the new shares).
InventoryAfterBuy(inv, fill_size, fill_price) ==
    LET total_cost == RAdd(RMul(inv.size, inv.avg_price), RMul(fill_size, fill_price))
        size == RAdd(inv.size, fill_size)
    IN  [inv EXCEPT !.size = size,
                    !.avg_price = IF RLt(RZero, size) THEN RDiv(total_cost, size)
                                  ELSE RZero]

\* update_inventory, the SELL branch.
InventoryAfterSell(inv, fill_size, fill_price) ==
    IF RLt(RZero, inv.size)
    THEN LET pnl == RMul(fill_size, RSub(fill_price, inv.avg_price))
         IN  [inv EXCEPT !.realized_pnl = RAdd(inv.realized_pnl, pnl),
                         !.size = RSub(inv.size, fill_size)]
    ELSE inv

\* update_inventory(token_id, fill_side, fill_size, fill_price)
UpdateInventory(fill_side, fill_size, fill_price) ==
    LET inv == IF st_inventory = NoValue THEN NewInventory ELSE st_inventory
    IN  /\ st_fills < MaxFills
        /\ st_fills' = st_fills + 1
        /\ st_last_fill' = [side |-> fill_side, size |-> fill_size, price |-> fill_price]
        /\ st_inventory' = IF fill_side = "BUY"
                           THEN InventoryAfterBuy(inv, fill_size, fill_price)
                           ELSE InventoryAfterSell(inv, fill_size, fill_price)

InitST ==
    /\ st_inventory = NoValue
    /\ st_last_fill = NoValue
    /\ st_fills = 0

STBuyFill ==
    \E fill_size \in FillSizes, fill_price \in FillPrices :
       UpdateInventory("BUY", fill_size, fill_price)
STSellFill ==
    \E fill_size \in FillSizes, fill_price \in FillPrices :
       UpdateInventory("SELL", fill_size, fill_price)

NextSpreadTrading ==
    \/ STBuyFill /\ UNCHANGED restST
    \/ STSellFill /\ UNCHANGED restST

---------------------------------------------------------------------------
(* CompoundingStrategy (strategies/compounding.py): set_initial_capital,   *)
(* execute and _process_result.  The sub-strategy's execute is the input   *)
(* of execute: the StrategyResult it returned.                             *)

MaxTrades == 4

InitialCapitals == {RZero, RInt(10)}
TradeProfits == {RInt(-20), RInt(-5), RZero, RInt(5), RInt(20)}

\* _process_result: "Track peak".
PeakCapitalStale(peak_capital, current_capital) == peak_capital
PeakCapital(peak_capital, current_capital) == RMax(peak_capital, current_capital)

\* The max_drawdown property.
max_drawdown ==
    IF cp_peak_capital = RZero
    THEN RZero
    ELSE RDiv(RSub(cp_peak_capital, cp_current_capital), cp_peak_capital)

\* The win_rate property.
win_rate == IF cp_trade_count = 0 THEN RZero ELSE Rat(cp_win_count, cp_trade_count)

\* set_initial_capital(amount)
CPSetInitialCapital(amount) ==
    /\ cp_initial_capital' = amount
    /\ cp_current_capital' = amount
    /\ cp_peak_capital' = amount
    /\ UNCHANGED <<cp_total_profit, cp_trade_count, cp_win_count>>

\* _process_result(result, signal)
CPProcessResult(profit_loss) ==
    /\ cp_trade_count' = cp_trade_count + 1
    /\ IF RLe(RZero, profit_loss)
       THEN /\ cp_win_count' = cp_win_count + 1
            /\ cp_total_profit' = RAdd(cp_total_profit, profit_loss)
       ELSE UNCHANGED <<cp_win_count, cp_total_profit>>
    /\ cp_current_capital' = RAdd(cp_current_capital, profit_loss)
    /\ cp_peak_capital' = PeakCapital(cp_peak_capital, cp_current_capital')
    /\ UNCHANGED cp_initial_capital

\* execute(signal): the sub-strategy returned a result with this success
\* flag and profit_loss.
CPExecute(success, profit_loss) ==
    /\ cp_trade_count < MaxTrades
    /\ IF success
       THEN CPProcessResult(profit_loss)
       ELSE UNCHANGED <<cp_initial_capital, cp_current_capital, cp_peak_capital,
                        cp_total_profit, cp_trade_count, cp_win_count>>

InitCP ==
    /\ cp_initial_capital = RZero
    /\ cp_current_capital = RZero
    /\ cp_peak_capital = RZero
    /\ cp_total_profit = RZero
    /\ cp_trade_count = 0
    /\ cp_win_count = 0

CPSetCapital == \E amount \in InitialCapitals : CPSetInitialCapital(amount)
CPTrade ==
    \E success \in BOOLEAN, profit_loss \in TradeProfits : CPExecute(success, profit_loss)

NextCompounding ==
    \/ CPSetCapital /\ UNCHANGED restCP
    \/ CPTrade /\ UNCHANGED restCP

---------------------------------------------------------------------------
(* BinanceConnector (exchanges/binance.py): connect, disconnect,           *)
(* subscribe_price, unsubscribe_price and the connection task _ws_connect, *)
(* cut at its awaits (the dial, the read of a message, the sleep).         *)

MaxFeedOps == 4
MaxRedials == 8

ConnTasks == {"c1", "c2"}
Symbols == {"btcusdt", "ethusdt"}

\* f"{symbol.lower()}@bookTicker"
BookTickerStream(symbol) == <<symbol, "bookTicker">>

NoTask == [pc |-> "none"]

\* self._ws = None
NoSocket == "none"

\* The connection tasks created and not yet finished.
LiveTasks == {t \in ConnTasks : bn_task[t] # NoTask}
OpenTasks == {t \in ConnTasks : bn_task[t].pc = "open"}

\* min(self._reconnect_delay * 2, 60)
NextReconnectDelayUncapped(delay) == delay * 2
NextReconnectDelay(delay) == IF delay * 2 < 60 THEN delay * 2 ELSE 60

\* asyncio.create_task(self._ws_connect()) when self._ws is None.
TasksAfterSubscribe(t) ==
    IF bn_ws = NoSocket
    THEN [bn_task EXCEPT ![t] = [pc |-> "start"]]
    ELSE bn_task

\* connect()
BNConnect ==
    /\ bn_ops < MaxFeedOps
    /\ ~bn_running
    /\ bn_running' = TRUE
    /\ bn_ops' = bn_ops + 1
    /\ UNCHANGED <<bn_ws, bn_subscriptions, bn_reconnect_delay, bn_task, bn_redials,
                   bn_wait, bn_delivered>>

\* disconnect(): closing self._ws ends the read loop of the task that owns it.
BNDisconnect ==
    /\ bn_ops < MaxFeedOps
    /\ bn_running
    /\ bn_running' = FALSE
    /\ bn_ops' = bn_ops + 1
    /\ bn_ws' = NoSocket
    /\ bn_task' = [t \in ConnTasks |->
                      IF bn_ws = t /\ bn_task[t].pc = "open"
                      THEN [pc |-> "start"]
                      ELSE bn_task[t]]
    /\ UNCHANGED <<bn_subscriptions, bn_reconnect_delay, bn_redials, bn_wait,
                   bn_delivered>>

\* subscribe_price(symbol); t is the task create_task would make.
BNSubscribePrice(symbol, t) ==
    /\ bn_ops < MaxFeedOps
    /\ bn_task[t] = NoTask
    /\ bn_ops' = bn_ops + 1
    /\ bn_subscriptions' = bn_subscriptions \cup {BookTickerStream(symbol)}
    /\ bn_task' = TasksAfterSubscribe(t)
    /\ UNCHANGED <<bn_running, bn_ws, bn_reconnect_delay, bn_redials, bn_wait,
                   bn_delivered>>

\* unsubscribe_price(symbol)
BNUnsubscribePrice(symbol) ==
    /\ bn_ops < MaxFeedOps
    /\ BookTickerStream(symbol) \in bn_subscriptions
    /\ bn_ops' = bn_ops + 1
    /\ bn_subscriptions' = bn_subscriptions \ {BookTickerStream(symbol)}
    /\ UNCHANGED <<bn_running, bn_ws, bn_reconnect_delay, bn_task, bn_redials,
                   bn_wait, bn_delivered>>

\* _ws_connect, the loop test: dial the streams subscribed now, or finish.
BNLoopHead(t) ==
    /\ bn_task[t].pc = "start"
    /\ IF bn_running /\ bn_subscriptions # {}
       THEN /\ bn_task' = [bn_task EXCEPT ![t] = [pc |-> "dialing",
                                                  streams |-> bn_subscriptions]]
            /\ UNCHANGED bn_ws
       ELSE /\ bn_task' = [bn_task EXCEPT ![t] = NoTask]
            /\ bn_ws' = NoSocket
    /\ UNCHANGED <<bn_running, bn_subscriptions, bn_reconnect_delay, bn_redials,
                   bn_wait, bn_delivered, bn_ops>>

\* websockets.connect succeeded.
BNDialed(t) ==
    /\ bn_task[t].pc = "dialing"
    /\ bn_ws' = t
    /\ bn_reconnect_delay' = 1
    /\ bn_redials' = 0
    /\ bn_task' = [bn_task EXCEPT ![t].pc = "open"]
    /\ UNCHANGED <<bn_running, bn_subscriptions, bn_wait, bn_delivered, bn_ops>>

\* The dial failed, or the open connection was closed: the except clauses,
\* then the sleep of self._reconnect_delay when still running.
BNConnectionLost(t) ==
    /\ bn_task[t].pc \in {"dialing", "open"}
    /\ bn_redials < MaxRedials
    /\ IF bn_running
       THEN /\ bn_task' = [bn_task EXCEPT ![t] = [pc |-> "sleeping"]]
            /\ bn_wait' = bn_reconnect_delay
            /\ bn_redials' = bn_redials + 1
       ELSE /\ bn_task' = [bn_task EXCEPT ![t] = [pc |-> "start"]]
            /\ UNCHANGED <<bn_wait, bn_redials>>
    /\ UNCHANGED <<bn_running, bn_ws, bn_subscriptions, bn_reconnect_delay,
                   bn_delivered, bn_ops>>

\* The sleep is over: the delay doubles.
BNSleepOver(t) ==
    /\ bn_task[t].pc = "sleeping"
    /\ bn_reconnect_delay' = NextReconnectDelay(bn_reconnect_delay)
    /\ bn_task' = [bn_task EXCEPT ![t] = [pc |-> "start"]]
    /\ UNCHANGED <<bn_running, bn_ws, bn_subscriptions, bn_redials, bn_wait,
                   bn_delivered, bn_ops>>

\* A message of a stream of the connection arrives: the read loop breaks
\* when not running, else the update goes to the callbacks.
BNMessage(t, stream) ==
    /\ bn_task[t].pc = "open"
    /\ stream \in bn_task[t].streams
    /\ IF bn_running
       THEN /\ bn_delivered' = [stream |-> stream, task |-> t,
                                seq |-> 1 - bn_delivered.seq]
            /\ UNCHANGED bn_task
       ELSE /\ bn_task' = [bn_task EXCEPT ![t] = [pc |-> "start"]]
            /\ UNCHANGED bn_delivered
    /\ UNCHANGED <<bn_running, bn_ws, bn_subscriptions, bn_reconnect_delay,
                   bn_redials, bn_wait, bn_ops>>

InitBN ==
    /\ bn_running = FALSE
    /\ bn_ws = NoSocket
    /\ bn_subscriptions = {}
    /\ bn_reconnect_delay = 1
    /\ bn_task = [t \in ConnTasks |-> NoTask]
    /\ bn_redials = 0
    /\ bn_wait = 0
    /\ bn_delivered = [stream |-> <<"none", "none">>, task |-> "none", seq |-> 0]
    /\ bn_ops = 0

\* No connection task is on its way to set self._ws.
FeedSettled == LiveTasks = {} \/ bn_ws # NoSocket

FreeTask == CHOOSE t \in ConnTasks : bn_task[t] = NoTask

SubscribePrice ==
    /\ \E t \in ConnTasks : bn_task[t] = NoTask
    /\ \E symbol \in Symbols : BNSubscribePrice(symbol, FreeTask)
UnsubscribePrice == \E symbol \in Symbols : BNUnsubscribePrice(symbol)
WsLoopHead == \E t \in ConnTasks : BNLoopHead(t)
WsDialed == \E t \in ConnTasks : BNDialed(t)
WsConnectionLost == \E t \in ConnTasks : BNConnectionLost(t)
WsSleepOver == \E t \in ConnTasks : BNSleepOver(t)
WsMessage == \E t \in OpenTasks : \E stream \in bn_task[t].streams : BNMessage(t, stream)

NextFeed ==
    \/ BNConnect /\ UNCHANGED restBN
    \/ BNDisconnect /\ UNCHANGED restBN
    \/ (FeedSettled /\ SubscribePrice) /\ UNCHANGED restBN
    \/ UnsubscribePrice /\ UNCHANGED restBN
    \/ WsLoopHead /\ UNCHANGED restBN
    \/ WsDialed /\ UNCHANGED restBN
    \/ WsConnectionLost /\ UNCHANGED restBN
    \/ WsSleepOver /\ UNCHANGED restBN
    \/ WsMessage /\ UNCHANGED restBN

NextFeedOverlap ==
    \/ BNConnect /\ UNCHANGED restBN
    \/ BNDisconnect /\ UNCHANGED restBN
    \/ SubscribePrice /\ UNCHANGED restBN
    \/ UnsubscribePrice /\ UNCHANGED restBN
    \/ WsLoopHead /\ UNCHANGED restBN
    \/ WsDialed /\ UNCHANGED restBN
    \/ WsConnectionLost /\ UNCHANGED restBN
    \/ WsSleepOver /\ UNCHANGED restBN
    \/ WsMessage /\ UNCHANGED restBN

\* The event loop runs a connection task through its loop test, its dial,
\* its sleep and the messages it has received; the transport's failures are
\* not the program's to schedule.
FairFeed ==
    /\ WF_vars(WsLoopHead /\ UNCHANGED restBN)
    /\ WF_vars(WsDialed /\ UNCHANGED restBN)
    /\ WF_vars(WsSleepOver /\ UNCHANGED restBN)
    /\ WF_vars(WsMessage /\ UNCHANGED restBN)

---------------------------------------------------------------------------
(* The feed's message handlers (exchanges/binance.py) and                  *)
(* ExchangeBase._notify_callbacks (exchanges/base.py) for one symbol, the  *)
(* messages read by one connection task: a message is handled to the end,  *)
(* every callback called, before the next one is read.  Time is in ticks   *)
(* of the local clock; a trade carries its trade time and a kline the open *)
(* time of its candle, both at or before the time of arrival.              *)

MaxNotified == 2
MaxNow == 2

CallbackIds == {"k1", "k2"}
EventLags == {0, 1}

\* The PriceUpdate each handler builds; n numbers the updates in arrival order.
BookTickerUpdate(n, now) == [n |-> n, stream |-> "bookTicker", timestamp |-> now]
TradeUpdate(n, trade_time) == [n |-> n, stream |-> "trade", timestamp |-> trade_time]
KlineUpdate(n, open_time) == [n |-> n, stream |-> "kline", timestamp |-> open_time]

\* _notify_callbacks, the for loop: the callback called after callback i
\* returned or raised (0: the loop is over).
NextCallbackPropagating(i, raised) ==
    IF raised \/ i = Len(ex_callbacks) THEN 0 ELSE i + 1
NextCallback(i, raised) == IF i = Len(ex_callbacks) THEN 0 ELSE i + 1

\* add_callback(callback)
ExAddCallback(k) ==
    /\ ex_pc = 0
    /\ \A i \in 1..Len(ex_callbacks) : ex_callbacks[i].id # k
    /\ ex_callbacks' = Append(ex_callbacks, [id |-> k, since |-> Len(ex_price_history)])
    /\ UNCHANGED <<ex_now, ex_price_history, ex_received, ex_raised, ex_pc>>

\* The local clock advances.
ExTick ==
    /\ ex_now < MaxNow
    /\ ex_now' = ex_now + 1
    /\ UNCHANGED <<ex_callbacks, ex_price_history, ex_received, ex_raised, ex_pc>>

\* _notify_callbacks(update) up to the first callback.
NotifyCallbacks(update) ==
    /\ ex_pc = 0
    /\ Len(ex_price_history) < MaxNotified
    /\ ex_price_history' = DequeAppend(ex_price_history, update)
    /\ ex_raised' = {}
    /\ ex_pc' = IF Len(ex_callbacks) = 0 THEN 0 ELSE 1
    /\ UNCHANGED <<ex_now, ex_callbacks, ex_received>>

\* _handle_book_ticker, _handle_trade, _handle_kline
HandleBookTicker == NotifyCallbacks(BookTickerUpdate(Len(ex_price_history) + 1, ex_now))
HandleTrade(trade_time) == NotifyCallbacks(TradeUpdate(Len(ex_price_history) + 1, trade_time))
HandleKline(open_time) == NotifyCallbacks(KlineUpdate(Len(ex_price_history) + 1, open_time))

\* _notify_callbacks, one turn of the for loop: the callback is called with
\* the update and returns or raises.
ExCallback(raised) ==
    LET k == ex_callbacks[ex_pc].id
        update == ex_price_history[Len(ex_price_history)]
    IN  /\ ex_pc > 0
        /\ ex_received' = [ex_received EXCEPT ![k] = Append(@, update)]
        /\ ex_raised' = IF raised THEN ex_raised \cup {k} ELSE ex_raised
        /\ ex_pc' = NextCallback(ex_pc, raised)
        /\ UNCHANGED <<ex_now, ex_callbacks, ex_price_history>>

InitEX ==
    /\ ex_now = 0
    /\ ex_callbacks = <<>>
    /\ ex_price_history = <<>>
    /\ ex_received = [k \in CallbackIds |-> <<>>]
    /\ ex_raised = {}
    /\ ex_pc = 0

AddCallback == \E k \in CallbackIds : ExAddCallback(k)
TradeMessage == \E lag \in EventLags : lag <= ex_now /\ HandleTrade(ex_now - lag)
KlineMessage == \E lag \in EventLags : lag <= ex_now /\ HandleKline(ex_now - lag)
CallbackReturns == ExCallback(FALSE)
CallbackRaises == ExCallback(TRUE)

NextExchange ==
    \/ AddCallback /\ UNCHANGED restEX
    \/ ExTick /\ UNCHANGED restEX
    \/ HandleBookTicker /\ UNCHANGED restEX
    \/ TradeMessage /\ UNCHANGED restEX
    \/ KlineMessage /\ UNCHANGED restEX
    \/ CallbackReturns /\ UNCHANGED restEX
    \/ CallbackRaises /\ UNCHANGED restEX

---------------------------------------------------------------------------
(* OrderBook (polymarket/orderbook.py): _handle_message, _update_book,     *)
(* get_snapshot and add_callback.  A book message carries two lists of     *)
(* entries whose price and size are decimal texts; float() turns them into *)
(* numbers.  A decimal text is its whole part and its fraction digits.     *)

MaxBookMessages == 2
MaxEntries == 2

Dec(whole, frac) == [whole |-> whole, frac |-> frac]

\* "0.4", "0.40", "0.6"
PriceTexts == {Dec(0, <<4>>), Dec(0, <<4, 0>>), Dec(0, <<6>>)}
\* "0.0", "10", "20"
SizeTexts == {Dec(0, <<0>>), Dec(10, <<>>), Dec(20, <<>>)}

BookEntries == [price : PriceTexts, size : SizeTexts]
EntryLists == UNION {[1..n -> BookEntries] : n \in 0..MaxEntries}
\* The 'bids' and 'asks' of a book message, MaxEntries entries in all.
BookMessages ==
    {m \in [bids : EntryLists, asks : EntryLists] :
        Len(m.bids) + Len(m.asks) <= MaxEntries}
BookCallbacks == {"cb"}

\* float(text)
RECURSIVE FracValue(_)
FracValue(frac) ==
    IF frac = <<>>
    THEN RZero
    ELSE RDiv(RAdd(RInt(frac[1]), FracValue(Tail(frac))), RInt(10))

ParseFloat(text) == RAdd(RInt(text.whole), FracValue(text.frac))

OrderLevel(price, size) == [price |-> price, size |-> size, order_count |-> 1]

\* The body of the loops of _update_book: one entry applied to one side.
LevelsAfterEntryKeepZero(levels, entry) ==
    LET price == ParseFloat(entry.price)
        size == ParseFloat(entry.size)
    IN [p \in DOMAIN levels \cup {price} |->
            IF p = price THEN OrderLevel(price, size) ELSE levels[p]]

LevelsAfterEntry(levels, entry) ==
    LET price == ParseFloat(entry.price)
        size == ParseFloat(entry.size)
    IN IF size = RZero
       THEN [p \in DOMAIN levels \ {price} |-> levels[p]]
       ELSE [p \in DOMAIN levels \cup {price} |->
                IF p = price THEN OrderLevel(price, size) ELSE levels[p]]

\* for bid in bids / for ask in asks
RECURSIVE LevelsAfterEntries(_, _)
LevelsAfterEntries(levels, entries) ==
    IF entries = <<>>
    THEN levels
    ELSE LevelsAfterEntries(LevelsAfterEntry(levels, Head(entries)), Tail(entries))

\* best_bid, best_ask and mid_price of the snapshot get_snapshot returns:
\* the head of the bids sorted by falling price, of the asks by rising price.
BestBid(bids) ==
    IF DOMAIN bids = {}
    THEN RZero
    ELSE CHOOSE p \in DOMAIN bids : \A q \in DOMAIN bids : RLe(q, p)

BestAsk(asks) ==
    IF DOMAIN asks = {}
    THEN ROne
    ELSE CHOOSE p \in DOMAIN asks : \A q \in DOMAIN asks : RLe(p, q)

MidPrice(bids, asks) == RDiv(RAdd(BestBid(bids), BestAsk(asks)), RInt(2))

\* The sizes of the entries received last for each price of one side, the
\* record the book is compared with: <<0, 0>> stands for a price no entry
\* has named.
NeverReceived == <<0, 0>>

LatestAfterEntries(latest, entries) ==
    [p \in DOMAIN latest |->
        LET named == {i \in DOMAIN entries : ParseFloat(entries[i].price) = p}
        IN IF named = {}
           THEN latest[p]
           ELSE ParseFloat(entries[CHOOSE i \in named : \A j \in named : j <= i].size)]

\* add_callback(callback)
OBAddCallback(callback) ==
    /\ callback \notin DOMAIN ob_callbacks
    /\ ob_callbacks' = [k \in DOMAIN ob_callbacks \cup {callback} |->
                            IF k = callback THEN 0 ELSE ob_callbacks[k]]
    /\ UNCHANGED <<ob_bids, ob_asks, ob_price_history, ob_latest, ob_messages>>

\* _handle_message with type 'book': _update_book(data).  Every callback is
\* called with the snapshot; what it raises is logged.
OBUpdateBook(bids, asks) ==
    /\ ob_messages < MaxBookMessages
    /\ ob_messages' = ob_messages + 1
    /\ ob_bids' = LevelsAfterEntries(ob_bids, bids)
    /\ ob_asks' = LevelsAfterEntries(ob_asks, asks)
    /\ ob_price_history' = Append(ob_price_history,
            [mid |-> MidPrice(ob_bids', ob_asks'),
             bid |-> BestBid(ob_bids'),
             ask |-> BestAsk(ob_asks')])
    /\ ob_callbacks' = [k \in DOMAIN ob_callbacks |-> ob_callbacks[k] + 1]
    /\ ob_latest' = [bids |-> LatestAfterEntries(ob_latest.bids, bids),
                     asks |-> LatestAfterEntries(ob_latest.asks, asks)]

\* _handle_message with type 'price_change' or 'trade': logged only.
OBOtherMessage ==
    /\ ob_messages < MaxBookMessages
    /\ ob_messages' = ob_messages + 1
    /\ UNCHANGED <<ob_bids, ob_asks, ob_price_history, ob_callbacks, ob_latest>>

InitOB ==
    /\ ob_bids = <<>>
    /\ ob_asks = <<>>
    /\ ob_price_history = <<>>
    /\ ob_callbacks = <<>>
    /\ ob_latest = [bids |-> [p \in {ParseFloat(t) : t \in PriceTexts} |-> NeverReceived],
                    asks |-> [p \in {ParseFloat(t) : t \in PriceTexts} |-> NeverReceived]]
    /\ ob_messages = 0

BookAddCallback == \E callback \in BookCallbacks : OBAddCallback(callback)
BookMessage == \E data \in BookMessages : OBUpdateBook(data.bids, data.asks)

NextOrderBook ==
    \/ BookAddCallback /\ UNCHANGED restOB
    \/ BookMessage /\ UNCHANGED restOB
    \/ OBOtherMessage /\ UNCHANGED restOB

---------------------------------------------------------------------------
(* RateLimiter (utils/helpers.py): acquire(tokens) under the asyncio lock.  *)
(* Time is counted in ticks since _last_update was written; it need not be  *)
(* counted beyond the tick at which the bucket is full.  asyncio.Lock hands *)
(* the lock to its waiters in the order of their calls.                     *)

MaxTokens == 3

rate == 1
burst == 2

Callers == {"a1", "a2"}
RequestTokens == 1..MaxTokens
NoCaller == "none"

\* elapsed * rate fills the bucket from empty after this many ticks.
FullAfter == (burst + rate - 1) \div rate

Min(a, b) == IF a <= b THEN a ELSE b

\* self._tokens = min(self.burst, self._tokens + elapsed * self.rate)
Refilled(tokens, elapsed) == Min(burst, tokens + elapsed * rate)

\* wait_time = (tokens - self._tokens) / self.rate, in whole ticks
WaitTime(tokens, available) == (tokens - available + rate - 1) \div rate

\* acquire(tokens) up to "async with self._lock": the caller enters when the
\* lock is free and nobody waits for it, and waits in line otherwise.
RLAcquire(c, tokens) ==
    /\ rl_pc[c] = "idle"
    /\ rl_request' = [rl_request EXCEPT ![c] = tokens]
    /\ IF rl_lock = NoCaller /\ rl_waiters = <<>>
       THEN /\ rl_lock' = c
            /\ rl_pc' = [rl_pc EXCEPT ![c] = "running"]
            /\ UNCHANGED rl_waiters
       ELSE /\ rl_waiters' = Append(rl_waiters, c)
            /\ rl_pc' = [rl_pc EXCEPT ![c] = "queued"]
            /\ UNCHANGED rl_lock
    /\ UNCHANGED <<rl_tokens, rl_elapsed, rl_sleep>>

\* One pass of "while True": refill, then either take the tokens, return and
\* release the lock to the first waiter, or go to sleep holding the lock.
RLLoop(c) ==
    /\ rl_pc[c] = "running"
    /\ rl_lock = c
    /\ rl_elapsed' = 0
    /\ LET available == Refilled(rl_tokens, rl_elapsed)
       IN IF available >= rl_request[c]
          THEN /\ rl_tokens' = available - rl_request[c]
               /\ rl_request' = [rl_request EXCEPT ![c] = 0]
               /\ IF rl_waiters = <<>>
                  THEN /\ rl_lock' = NoCaller
                       /\ rl_pc' = [rl_pc EXCEPT ![c] = "idle"]
                       /\ UNCHANGED rl_waiters
                  ELSE /\ rl_lock' = Head(rl_waiters)
                       /\ rl_pc' = [rl_pc EXCEPT ![c] = "idle",
                                                 ![Head(rl_waiters)] = "running"]
                       /\ rl_waiters' = Tail(rl_waiters)
               /\ UNCHANGED rl_sleep
          ELSE /\ rl_tokens' = available
               /\ rl_sleep' = WaitTime(rl_request[c], available)
               /\ rl_pc' = [rl_pc EXCEPT ![c] = "sleeping"]
               /\ UNCHANGED <<rl_request, rl_lock, rl_waiters>>

\* asyncio.sleep(wait_time) is over.
RLWake(c) ==
    /\ rl_pc[c] = "sleeping"
    /\ rl_sleep = 0
    /\ rl_pc' = [rl_pc EXCEPT ![c] = "running"]
    /\ UNCHANGED <<rl_tokens, rl_elapsed, rl_lock, rl_waiters, rl_request, rl_sleep>>

\* time.time() advances by one tick.
RLTick ==
    /\ rl_elapsed < FullAfter \/ rl_sleep > 0
    /\ rl_elapsed' = Min(rl_elapsed + 1, FullAfter)
    /\ rl_sleep' = IF rl_sleep > 0 THEN rl_sleep - 1 ELSE 0
    /\ UNCHANGED <<rl_tokens, rl_lock, rl_waiters, rl_request, rl_pc>>

InitRL ==
    /\ rl_tokens = burst
    /\ rl_elapsed = 0
    /\ rl_lock = NoCaller
    /\ rl_waiters = <<>>
    /\ rl_request = [c \in Callers |-> 0]
    /\ rl_pc = [c \in Callers |-> "idle"]
    /\ rl_sleep = 0

Acquire == \E c \in Callers, tokens \in RequestTokens : RLAcquire(c, tokens)
AcquireLoop == \E c \in Callers : RLLoop(c)
AcquireWakes == \E c \in Callers : RLWake(c)

NextRateLimiter ==
    \/ Acquire /\ UNCHANGED restRL
    \/ AcquireLoop /\ UNCHANGED restRL
    \/ AcquireWakes /\ UNCHANGED restRL
    \/ RLTick /\ UNCHANGED restRL

\* The event loop runs every task that is ready, and time passes.
FairRateLimiter ==
    /\ WF_vars(AcquireLoop /\ UNCHANGED restRL)
    /\ WF_vars(AcquireWakes /\ UNCHANGED restRL)
    /\ WF_vars(RLTick /\ UNCHANGED restRL)

---------------------------------------------------------------------------
(* NotificationManager (utils/notifications.py): _should_send and notify.   *)
(* The clock of datetime.now().timestamp() is counted in ticks, a whole     *)
(* number of them to the second, and reads a time after the first second of *)
(* the epoch.                                                               *)

MaxNotifies == 4
MaxNotifyTicks == 4
TicksPerSecond == 2

_rate_limit_seconds == 1
KeyChars == 50

NotificationTypes == {"info", "error"}
\* Two messages that agree in their first 50 characters, and a short one.
NotificationMessages ==
    {"Arbitrage found on market 0x1234567890abcdef, spread 2.1%",
     "Arbitrage found on market 0x1234567890abcdef, spread 3.4%",
     "Bot started"}

\* message[:50]
MessageHead(message) ==
    IF Len(message) <= KeyChars THEN message ELSE SubSeq(message, 1, KeyChars)

\* f"{notification_type}:{message[:50]}"
NotificationKeyTypeOnly(notification_type, message) == notification_type \o ":"
NotificationKey(notification_type, message) ==
    notification_type \o ":" \o MessageHead(message)

\* self._rate_limit_timestamps.get(notification_type, 0)
LastSent(key) ==
    IF key \in DOMAIN nm_rate_limit_timestamps THEN nm_rate_limit_timestamps[key] ELSE 0

\* _should_send(notification_type): the answer
ShouldSend(key) == ~(nm_now - LastSent(key) < _rate_limit_seconds * TicksPerSecond)

\* notify(message, notification_type): _should_send, then the channels.  What
\* was let through and what was held back is written down with its type, the
\* head of its message and the time.
NMNotify(message, notification_type) ==
    LET key == NotificationKey(notification_type, message)
        call == [type |-> notification_type, head |-> MessageHead(message), time |-> nm_now]
    IN /\ nm_calls < MaxNotifies
       /\ nm_calls' = nm_calls + 1
       /\ IF ShouldSend(key)
          THEN /\ nm_rate_limit_timestamps' =
                    [k \in DOMAIN nm_rate_limit_timestamps \cup {key} |->
                        IF k = key THEN nm_now ELSE nm_rate_limit_timestamps[k]]
               /\ nm_sent' = nm_sent \cup {call}
               /\ UNCHANGED nm_held
          ELSE /\ nm_held' = nm_held \cup {call}
               /\ UNCHANGED <<nm_rate_limit_timestamps, nm_sent>>
       /\ UNCHANGED nm_now

\* The clock advances by one tick.
NMTick ==
    /\ nm_now < TicksPerSecond + MaxNotifyTicks
    /\ nm_now' = nm_now + 1
    /\ UNCHANGED <<nm_rate_limit_timestamps, nm_sent, nm_held, nm_calls>>

InitNM ==
    /\ nm_now = TicksPerSecond
    /\ nm_rate_limit_timestamps = <<>>
    /\ nm_sent = {}
    /\ nm_held = {}
    /\ nm_calls = 0

Notify ==
    \E message \in NotificationMessages, notification_type \in NotificationTypes :
        NMNotify(message, notification_type)

NextNotifications ==
    \/ Notify /\ UNCHANGED restNM
    \/ NMTick /\ UNCHANGED restNM

---------------------------------------------------------------------------
(* The transports of one session of WanchaiBot.run (bot.py): initialize,    *)
(* the loop, the signal handler and shutdown.  Two BinanceConnectors exist: *)
(* the one of the bot's PriceAggregator and the one LatencyArbitrage-       *)
(* Strategy builds for its own aggregator and subscribes to BTCUSDT.        *)

MaxSessionIterations == 2

Connectors == {"bot", "latency"}
TaskLive == {"dialing", "open", "sleeping"}

\* BinanceConnector.connect()
ConnectorConnected(conn) == [conn EXCEPT !.session = TRUE, !.running = TRUE]

\* BinanceConnector.subscribe_price(symbol): the stream is added and, with
\* no socket yet, a connection task is created.
ConnectorSubscribed(conn) ==
    [conn EXCEPT !.subscribed = TRUE,
                 !.task = IF conn.ws THEN conn.task ELSE "dialing"]

\* BinanceConnector.disconnect(): the socket and the HTTP session are
\* closed; the connection task leaves its loop when its socket is closed.
ConnectorDisconnected(conn) ==
    [conn EXCEPT !.running = FALSE,
                 !.ws = FALSE,
                 !.session = FALSE,
                 !.task = IF conn.ws THEN "ended" ELSE conn.task]

\* LatencyArbitrageStrategy.initialize(): connect_all, subscribe_symbol.
LatencyInitialized(conn) == ConnectorSubscribed(ConnectorConnected(conn))

\* WanchaiBot.initialize() and the head of run(): the client and the bot's
\* aggregator connect, the enabled strategies are built and initialized.
SSInitialize(latency_enabled) ==
    /\ ss_pc = "new"
    /\ ss_pc' = "loop"
    /\ ss_polymarket' = TRUE
    /\ ss_connector' =
            [c \in Connectors |->
                IF c = "bot" THEN ConnectorConnected(ss_connector[c])
                ELSE IF latency_enabled THEN LatencyInitialized(ss_connector[c])
                ELSE ss_connector[c]]
    /\ ss_running' = TRUE
    /\ UNCHANGED <<ss_signalled, ss_iterations, ss_late>>

\* signal_handler(sig, frame)
SSSignalHandler ==
    /\ ss_pc \in {"loop", "run_once", "sleep"}
    /\ ~ss_signalled
    /\ ss_signalled' = TRUE
    /\ ss_running' = FALSE
    /\ UNCHANGED <<ss_pc, ss_polymarket, ss_connector, ss_iterations, ss_late>>

\* while self._running: the duration check, then the next iteration.
SSLoopHead(duration_reached) ==
    /\ ss_pc = "loop"
    /\ IF ~ss_running \/ duration_reached \/ ss_iterations = MaxSessionIterations
       THEN /\ ss_pc' = "shutdown"
            /\ UNCHANGED <<ss_iterations, ss_late>>
       ELSE /\ ss_pc' = "run_once"
            /\ ss_iterations' = ss_iterations + 1
            /\ ss_late' = IF ss_signalled THEN ss_late + 1 ELSE ss_late
    /\ UNCHANGED <<ss_running, ss_signalled, ss_polymarket, ss_connector>>

\* run_once() returns or raises, then _check_risk_limits().
SSIterationEnd(go_on) ==
    /\ ss_pc = "run_once"
    /\ ss_pc' = IF go_on THEN "sleep" ELSE "shutdown"
    /\ UNCHANGED <<ss_running, ss_signalled, ss_polymarket, ss_connector,
                   ss_iterations, ss_late>>

\* asyncio.sleep(scan_interval) is over.
SSSleepOver ==
    /\ ss_pc = "sleep"
    /\ ss_pc' = "loop"
    /\ UNCHANGED <<ss_running, ss_signalled, ss_polymarket, ss_connector,
                   ss_iterations, ss_late>>

\* shutdown(): price_aggregator.disconnect_all(), polymarket.close().
SSShutdown ==
    /\ ss_pc = "shutdown"
    /\ ss_pc' = "done"
    /\ ss_connector' = [ss_connector EXCEPT !["bot"] = ConnectorDisconnected(@)]
    /\ ss_polymarket' = FALSE
    /\ ss_running' = FALSE
    /\ UNCHANGED <<ss_signalled, ss_iterations, ss_late>>

\* _ws_connect of connector c: websockets.connect succeeded.
SSDialed(c) ==
    /\ ss_connector[c].task = "dialing"
    /\ ss_connector' = [ss_connector EXCEPT ![c].task = "open", ![c].ws = TRUE]
    /\ UNCHANGED <<ss_pc, ss_running, ss_signalled, ss_polymarket, ss_iterations, ss_late>>

\* _ws_connect of connector c: the dial failed or the connection was lost;
\* the task sleeps while the connector is running and ends otherwise.
SSConnectionLost(c) ==
    /\ ss_connector[c].task \in {"dialing", "open"}
    /\ ss_connector' =
            [ss_connector EXCEPT ![c].task = IF ss_connector[c].running
                                             THEN "sleeping" ELSE "ended",
                                 ![c].ws = IF ss_connector[c].running
                                           THEN ss_connector[c].ws ELSE FALSE]
    /\ UNCHANGED <<ss_pc, ss_running, ss_signalled, ss_polymarket, ss_iterations, ss_late>>

\* _ws_connect of connector c: the back-off sleep is over, the loop test.
SSRedial(c) ==
    /\ ss_connector[c].task = "sleeping"
    /\ ss_connector' =
            [ss_connector EXCEPT ![c].task = IF ss_connector[c].running /\ ss_connector[c].subscribed
                                             THEN "dialing" ELSE "ended",
                                 ![c].ws = IF ss_connector[c].running /\ ss_connector[c].subscribed
                                           THEN ss_connector[c].ws ELSE FALSE]
    /\ UNCHANGED <<ss_pc, ss_running, ss_signalled, ss_polymarket, ss_iterations, ss_late>>

InitSS ==
    /\ ss_pc = "new"
    /\ ss_running = FALSE
    /\ ss_signalled = FALSE
    /\ ss_polymarket = FALSE
    /\ ss_connector = [c \in Connectors |->
            [session |-> FALSE, running |-> FALSE, subscribed |-> FALSE,
             ws |-> FALSE, task |-> "none"]]
    /\ ss_iterations = 0
    /\ ss_late = 0

SessionInitialize == \E latency_enabled \in BOOLEAN : SSInitialize(latency_enabled)
SessionLoop == \E duration_reached \in BOOLEAN : SSLoopHead(duration_reached)
SessionIterationEnd == \E go_on \in BOOLEAN : SSIterationEnd(go_on)
SessionDialed == \E c \in Connectors : SSDialed(c)
SessionConnectionLost == \E c \in Connectors : SSConnectionLost(c)
SessionRedial == \E c \in Connectors : SSRedial(c)

NextSession ==
    \/ SessionInitialize /\ UNCHANGED restSS
    \/ SSSignalHandler /\ UNCHANGED restSS
    \/ SessionLoop /\ UNCHANGED restSS
    \/ SessionIterationEnd /\ UNCHANGED restSS
    \/ SSSleepOver /\ UNCHANGED restSS
    \/ SSShutdown /\ UNCHANGED restSS
    \/ SessionDialed /\ UNCHANGED restSS
    \/ SessionConnectionLost /\ UNCHANGED restSS
    \/ SessionRedial /\ UNCHANGED restSS

---------------------------------------------------------------------------
(* YesNoArbitrageStrategy.scan (strategies/yes_no_arbitrage.py) with its    *)
(* two sources: PolymarketClient.check_yes_no_arbitrage for the markets of  *)
(* the catalog, and MultiOrderBook.scan_all_arbitrage for the markets added *)
(* by add_market_to_monitor.  A market of the catalog is its id, the number *)
(* of its clobTokenIds and the quotes of its first two tokens.              *)

MaxScans == 2
MaxScanMarkets == 1
MaxOutcomeTokens == 3

min_spread == Rat(5, 1000)
target_profit == Rat(3, 100)
BuyBothBelow == Rat(995, 1000)
SellBothAbove == Rat(1005, 1000)

Quote(bid, ask) == [bid |-> bid, ask |-> ask]
Quotes == {Quote(Rat(38, 100), Rat(2, 5)), Quote(Rat(55, 100), Rat(3, 5)),
           Quote(Rat(1, 2), Rat(59, 100))}

CatalogMarkets ==
    [id : {"m1"}, tokens : 1..MaxOutcomeTokens, yes : Quotes, no : Quotes]
Catalogs == UNION {[1..n -> CatalogMarkets] : n \in 0..MaxScanMarkets}
MonitoredIds == {"m2"}

\* dict.get(key, default)
Get(dict, key, default) == IF key \in DOMAIN dict THEN dict[key] ELSE default

\* PolymarketClient.check_yes_no_arbitrage(market_id): the opportunity, or
\* NoValue for None.
CheckYesNoArbitrage(market) ==
    LET total_buy == RAdd(market.yes.ask, market.no.ask)
        total_sell == RAdd(market.yes.bid, market.no.bid)
    IN IF market.tokens < 2 THEN NoValue
       ELSE IF RLt(total_buy, BuyBothBelow)
       THEN [type |-> "BUY_BOTH", yes_price |-> market.yes.ask,
             no_price |-> market.no.ask, total_cost |-> total_buy,
             profit_pct |-> RDiv(RSub(ROne, total_buy), total_buy)]
       ELSE IF RLt(SellBothAbove, total_sell)
       THEN [type |-> "SELL_BOTH", yes_price |-> market.yes.bid,
             no_price |-> market.no.bid, total_value |-> total_sell,
             profit_pct |-> RSub(total_sell, ROne)]
       ELSE NoValue

\* MultiOrderBook.check_arbitrage(yes_token, no_token) on the snapshots of
\* the two books.
CheckArbitrage(yes_snap, no_snap) ==
    LET buy_total == RAdd(yes_snap.ask, no_snap.ask)
        sell_total == RAdd(yes_snap.bid, no_snap.bid)
    IN IF RLt(buy_total, BuyBothBelow)
       THEN [type |-> "BUY_BOTH", yes_price |-> yes_snap.ask,
             no_price |-> no_snap.ask, total |-> buy_total,
             profit |-> RSub(ROne, buy_total),
             profit_pct |-> RDiv(RSub(ROne, buy_total), buy_total)]
       ELSE IF RLt(SellBothAbove, sell_total)
       THEN [type |-> "SELL_BOTH", yes_price |-> yes_snap.bid,
             no_price |-> no_snap.bid, total |-> sell_total,
             profit |-> RSub(sell_total, ROne),
             profit_pct |-> RSub(sell_total, ROne)]
       ELSE NoValue

\* _create_arb_signal(market, arb).  The signal also carries where it came
\* from: the source, the number of tokens of the market and the two asks.
CreateArbSignal(market, arb, source) ==
    LET total == IF arb.type = "BUY_BOTH"
                 THEN Get(arb, "total_cost", ROne)
                 ELSE Get(arb, "total_value", ROne)
    IN [arb_type |-> arb.type,
        market_id |-> market.id,
        price |-> total,
        size |-> IF arb.type = "BUY_BOTH" THEN RDiv(YNMaxPosition, total)
                 ELSE YNMaxPosition,
        confidence |-> RMin(Rat(95, 100), RDiv(arb.profit_pct, target_profit)),
        expected_profit_pct |-> arb.profit_pct,
        source |-> source,
        tokens |-> market.tokens,
        yes_ask |-> market.yes.ask,
        no_ask |-> market.no.ask]

\* The first loop of scan: the markets of the catalog.
RECURSIVE RestSignals(_)
RestSignals(markets) ==
    IF markets = <<>> THEN <<>>
    ELSE LET market == Head(markets)
             arb == CheckYesNoArbitrage(market)
         IN IF market.tokens >= 2 /\ arb # NoValue /\ RLe(min_spread, arb.profit_pct)
            THEN <<CreateArbSignal(market, arb, "rest")>> \o RestSignals(Tail(markets))
            ELSE RestSignals(Tail(markets))

\* The second loop of scan: the pairs of the MultiOrderBook, in the order
\* they were added, each with the snapshots of its two books.
RECURSIVE BookSignals(_, _)
BookSignals(pairs, books) ==
    IF pairs = <<>> THEN <<>>
    ELSE LET info == Head(pairs)
             arb == CheckArbitrage(books[info.id].yes, books[info.id].no)
             market == [id |-> info.id, tokens |-> info.tokens,
                        yes |-> books[info.id].yes, no |-> books[info.id].no]
         IN IF arb # NoValue /\ RLe(min_spread, arb.profit_pct)
            THEN <<CreateArbSignal(market, arb, "book")>> \o BookSignals(Tail(pairs), books)
            ELSE BookSignals(Tail(pairs), books)

\* signals.sort(key=lambda s: s.expected_profit_pct, reverse=True)
RECURSIVE SortByProfit(_)
InsertByProfit(sig, sorted) ==
    LET before == {i \in DOMAIN sorted : RLe(sig.expected_profit_pct, sorted[i].expected_profit_pct)}
        k == Cardinality(before)
    IN SubSeq(sorted, 1, k) \o <<sig>> \o SubSeq(sorted, k + 1, Len(sorted))
SortByProfit(signals) ==
    IF signals = <<>> THEN <<>>
    ELSE InsertByProfit(signals[Len(signals)],
                        SortByProfit(SubSeq(signals, 1, Len(signals) - 1)))

\* add_market_to_monitor(market_id): a market with two tokens or more is
\* added with its first two.
PSAddMarketToMonitor(market_id, tokens) ==
    /\ \A i \in DOMAIN ps_monitored : ps_monitored[i].id # market_id
    /\ tokens >= 2
    /\ ps_monitored' = Append(ps_monitored, [id |-> market_id, tokens |-> tokens])
    /\ UNCHANGED <<ps_signals, ps_scans>>

\* scan()
PSScan(markets, books) ==
    /\ ps_scans < MaxScans
    /\ ps_scans' = ps_scans + 1
    /\ ps_signals' = SortByProfit(RestSignals(markets) \o BookSignals(ps_monitored, books))
    /\ UNCHANGED ps_monitored

InitPS ==
    /\ ps_monitored = <<>>
    /\ ps_signals = <<>>
    /\ ps_scans = 0

AddMarketToMonitor ==
    \E market_id \in MonitoredIds, tokens \in 1..MaxOutcomeTokens :
        PSAddMarketToMonitor(market_id, tokens)
ParityScan ==
    \E markets \in Catalogs, books \in [MonitoredIds -> [yes : Quotes, no : Quotes]] :
        PSScan(markets, books)

NextParityScan ==
    \/ AddMarketToMonitor /\ UNCHANGED restPS
    \/ ParityScan /\ UNCHANGED restPS

---------------------------------------------------------------------------
(* OrderBook.connect (polymarket/orderbook.py): the connection loop around  *)
(* _handle_message.  The book is the one of the order-book actions above;   *)
(* here it is fed by a stream that can be closed and dialled again.         *)

MaxStreamGaps == 1

\* What the entries received since the last dial say of each price.
NothingReceived ==
    [bids |-> [p \in {ParseFloat(t) : t \in PriceTexts} |-> NeverReceived],
     asks |-> [p \in {ParseFloat(t) : t \in PriceTexts} |-> NeverReceived]]

\* connect(): self._running = True, then the first pass of the loop dials.
OSConnect ==
    /\ os_pc = "new"
    /\ os_pc' = "dialing"
    /\ UNCHANGED <<os_gaps, os_fresh>>
    /\ UNCHANGED obVars

\* websockets.connect succeeded: self._ws = ws, the subscribe message is
\* sent.  The ladders are as the last connection left them.
OSDialed ==
    /\ os_pc = "dialing"
    /\ os_pc' = "open"
    /\ UNCHANGED <<os_gaps, os_fresh>>
    /\ UNCHANGED obVars

\* async for message in ws: a book message goes to _update_book.
OSBookMessage(bids, asks) ==
    /\ os_pc = "open"
    /\ OBUpdateBook(bids, asks)
    /\ os_fresh' = [bids |-> LatestAfterEntries(os_fresh.bids, bids),
                    asks |-> LatestAfterEntries(os_fresh.asks, asks)]
    /\ UNCHANGED <<os_pc, os_gaps>>

\* ConnectionClosed: the warning, asyncio.sleep(1), and the loop dials again.
OSConnectionClosed ==
    /\ os_pc = "open"
    /\ os_gaps < MaxStreamGaps
    /\ os_gaps' = os_gaps + 1
    /\ os_pc' = "dialing"
    /\ os_fresh' = NothingReceived
    /\ UNCHANGED obVars

InitOS ==
    /\ os_pc = "new"
    /\ os_gaps = 0
    /\ os_fresh = NothingReceived

StreamBookMessage == \E data \in BookMessages : OSBookMessage(data.bids, data.asks)

NextOrderBookStream ==
    \/ OSConnect /\ UNCHANGED restOBStream
    \/ OSDialed /\ UNCHANGED restOBStream
    \/ StreamBookMessage /\ UNCHANGED restOBStream
    \/ OSConnectionClosed /\ UNCHANGED restOBStream

---------------------------------------------------------------------------
(* NearResolvedStrategy.scan (strategies/near_resolved.py) over the        *)
(* opportunities of PolymarketClient.find_near_resolved_markets, and the    *)
(* position size of _calculate_snipe_size.  The capital is the strategy's   *)
(* _available_capital, set by set_capital.                                  *)

MaxSnipeScans == 2
MaxOpportunities == 2

min_probability == Rat(95, 100)
max_probability == Rat(99, 100)
min_yield == Rat(1, 1000)
max_time_to_resolution == 24

MaxPerMarketShare == Rat(20, 100)
ConfidenceFloor == Rat(90, 100)
ConfidenceSpan == Rat(10, 100)
MinimumPosition == RInt(10)
TopSignals == 10

ScanCapitals == {RZero, RInt(20), RInt(100), RInt(1000)}
MidPrices == {Rat(93, 100), Rat(95, 100), Rat(97, 100), Rat(99, 100)}
\* endDate of the market: none, within the day, two days away
EndDates == {"", "soon", "far"}
TokenQuotes == [mid : MidPrices, end_date : EndDates]
TokenQuoteLists ==
    UNION {[1..n -> TokenQuotes] : n \in 0..MaxOpportunities}

\* (end_dt - datetime.now(end_dt.tzinfo)).total_seconds() / 3600
HoursToEnd(end_date) == IF end_date = "soon" THEN 12 ELSE 48

\* near_resolved.sort(key=lambda x: x['potential_yield'], reverse=True)
RECURSIVE SortByYield(_)
InsertByYield(opp, sorted) ==
    LET before == {i \in DOMAIN sorted : RLe(opp.potential_yield, sorted[i].potential_yield)}
        k == Cardinality(before)
    IN SubSeq(sorted, 1, k) \o <<opp>> \o SubSeq(sorted, k + 1, Len(sorted))
SortByYield(opps) ==
    IF opps = <<>> THEN <<>>
    ELSE InsertByYield(opps[Len(opps)], SortByYield(SubSeq(opps, 1, Len(opps) - 1)))

\* find_near_resolved_markets: the tokens whose mid price is within the
\* probabilities asked for, best yield first.
RECURSIVE NearResolved(_, _, _)
NearResolved(quotes, lowest, highest) ==
    IF quotes = <<>> THEN <<>>
    ELSE LET mid_price == Head(quotes).mid
         IN IF RLe(lowest, mid_price) /\ RLe(mid_price, highest)
            THEN <<[probability |-> mid_price,
                    potential_yield |-> RSub(ROne, mid_price),
                    end_date |-> Head(quotes).end_date]>>
                 \o NearResolved(Tail(quotes), lowest, highest)
            ELSE NearResolved(Tail(quotes), lowest, highest)
FindNearResolvedMarkets(quotes, lowest, highest) ==
    SortByYield(NearResolved(quotes, lowest, highest))

\* _calculate_snipe_size(yield_pct, probability)
CalculateSnipeSize(available_capital, probability) ==
    IF RLe(available_capital, RZero)
    THEN RZero
    ELSE LET max_per_market == RMul(available_capital, MaxPerMarketShare)
             confidence_factor == RDiv(RSub(probability, ConfidenceFloor), ConfidenceSpan)
             position == RMul(max_per_market, confidence_factor)
         IN RMax(MinimumPosition, RMin(position, max_per_market))

\* The loop of scan over the opportunities.
RECURSIVE SnipeSignals(_, _)
SnipeSignals(opportunities, available_capital) ==
    IF opportunities = <<>> THEN <<>>
    ELSE LET opp == Head(opportunities)
             position_size == CalculateSnipeSize(available_capital, opp.probability)
             later == SnipeSignals(Tail(opportunities), available_capital)
         IN IF RLt(opp.potential_yield, min_yield) THEN later
            ELSE IF opp.end_date # "" /\ HoursToEnd(opp.end_date) > max_time_to_resolution
                 THEN later
            ELSE IF RLt(position_size, MinimumPosition) THEN later
            ELSE <<[price |-> opp.probability,
                    size |-> RDiv(position_size, opp.probability),
                    confidence |-> opp.probability,
                    expected_profit_pct |-> opp.potential_yield]>> \o later

\* signals[:10]
FirstSignals(signals, n) == SubSeq(signals, 1, IF Len(signals) < n THEN Len(signals) ELSE n)

\* scan()
SZScan(quotes) ==
    /\ sz_scans < MaxSnipeScans
    /\ sz_scans' = sz_scans + 1
    /\ sz_signals' =
          FirstSignals(
              SortByProfit(
                  SnipeSignals(
                      FindNearResolvedMarkets(quotes, min_probability, max_probability),
                      nr_available_capital)),
              TopSignals)

InitSZ ==
    /\ sz_signals = <<>>
    /\ sz_scans = 0

SnipeSetCapital == \E a \in ScanCapitals : NRSetCapital(a)
SnipeScan == \E quotes \in TokenQuoteLists : SZScan(quotes)

NextSnipeScan ==
    \/ SnipeSetCapital /\ UNCHANGED <<venueVars, restNR>>
    \/ SnipeScan /\ UNCHANGED restSZ

---------------------------------------------------------------------------
(* RangeCoverageStrategy.scan and _find_optimal_coverage                   *)
(* (strategies/range_coverage.py): the outcomes of a market with their ask  *)
(* prices, sorted by falling price, and the set the strategy covers.        *)

MaxCoverageScans == 1

max_total_cost == Rat(98, 100)
RCTargetProfit == Rat(25, 100)
min_outcomes_covered == 3
MinOutcomes == 3

\* Ask prices of the outcomes; 0 is the price of an outcome without a quote.
OutcomePrices == {RZero, Rat(15, 100), Rat(30, 100), Rat(40, 100)}
OutcomeCounts == 2..5
\* A market with five outcomes at 0.40, 0.30, 0.15, 0.10 and 0.05, as listed.
FiveOutcomeMarket == <<Rat(5, 100), Rat(40, 100), Rat(10, 100), Rat(30, 100), Rat(15, 100)>>
CoverageMarkets ==
    UNION {[1..n -> OutcomePrices] : n \in OutcomeCounts} \cup {FiveOutcomeMarket}
CoverageCatalogs == {<<>>} \cup {<<market>> : market \in CoverageMarkets}

\* outcome_data.sort(key=lambda x: x['price'], reverse=True)
RECURSIVE SortByPrice(_)
InsertByPrice(outcome, sorted) ==
    LET before == {i \in DOMAIN sorted : RLe(outcome.price, sorted[i].price)}
        k == Cardinality(before)
    IN SubSeq(sorted, 1, k) \o <<outcome>> \o SubSeq(sorted, k + 1, Len(sorted))
SortByPrice(outcome_data) ==
    IF outcome_data = <<>> THEN <<>>
    ELSE InsertByPrice(outcome_data[Len(outcome_data)],
                       SortByPrice(SubSeq(outcome_data, 1, Len(outcome_data) - 1)))

\* The outcomes of a market with the price of each, best price first.
OutcomeData(market) == SortByPrice([i \in DOMAIN market |-> [price |-> market[i]]])

\* The loop of _find_optimal_coverage: `keeps_on` is the loop that goes on to
\* the next outcome where the code breaks.
RECURSIVE CoverageLoopKeepsOn(_, _)
CoverageLoopKeepsOn(outcomes, coverage) ==
    IF outcomes = <<>> THEN coverage
    ELSE LET outcome == Head(outcomes)
             potential_cost == RAdd(coverage.total_cost, outcome.price)
         IN IF RLe(outcome.price, RZero)
            THEN CoverageLoopKeepsOn(Tail(outcomes), coverage)
            ELSE IF RLe(potential_cost, max_total_cost)
                 THEN CoverageLoopKeepsOn(Tail(outcomes),
                          [outcomes |-> Append(coverage.outcomes, outcome),
                           total_cost |-> potential_cost])
                 ELSE CoverageLoopKeepsOn(Tail(outcomes), coverage)
RECURSIVE CoverageLoop(_, _)
CoverageLoop(outcomes, coverage) ==
    IF outcomes = <<>> THEN coverage
    ELSE LET outcome == Head(outcomes)
             potential_cost == RAdd(coverage.total_cost, outcome.price)
         IN IF RLe(outcome.price, RZero)
            THEN CoverageLoop(Tail(outcomes), coverage)
            ELSE IF RLe(potential_cost, max_total_cost)
                 THEN CoverageLoop(Tail(outcomes),
                          [outcomes |-> Append(coverage.outcomes, outcome),
                           total_cost |-> potential_cost])
                 ELSE coverage

\* _find_optimal_coverage(outcomes): None, or the coverage with its profit.
FindOptimalCoverageKeepsOn(outcomes) ==
    LET coverage == CoverageLoopKeepsOn(outcomes, [outcomes |-> <<>>, total_cost |-> RZero])
        profit == RSub(ROne, coverage.total_cost)
    IN IF coverage.outcomes = <<>>
       THEN NoValue
       ELSE [outcomes |-> coverage.outcomes,
             total_cost |-> coverage.total_cost,
             expected_return |-> ROne,
             profit |-> profit,
             profit_pct |-> RDiv(profit, coverage.total_cost)]
FindOptimalCoverage(outcomes) ==
    LET coverage == CoverageLoop(outcomes, [outcomes |-> <<>>, total_cost |-> RZero])
        profit == RSub(ROne, coverage.total_cost)
    IN IF coverage.outcomes = <<>>
       THEN NoValue
       ELSE [outcomes |-> coverage.outcomes,
             total_cost |-> coverage.total_cost,
             expected_return |-> ROne,
             profit |-> profit,
             profit_pct |-> RDiv(profit, coverage.total_cost)]

\* The signals of scan for the markets of the catalog.
RECURSIVE CoverageSignals(_)
CoverageSignals(markets) ==
    IF markets = <<>> THEN <<>>
    ELSE LET market == Head(markets)
             coverage == FindOptimalCoverage(OutcomeData(market))
             later == CoverageSignals(Tail(markets))
         IN IF Len(market) < MinOutcomes THEN later
            ELSE IF coverage = NoValue THEN later
            ELSE IF Len(coverage.outcomes) < min_outcomes_covered THEN later
            ELSE IF RLt(RDiv(RSub(ROne, coverage.total_cost), coverage.total_cost),
                        RCTargetProfit)
                 THEN later
            ELSE <<[price |-> coverage.total_cost,
                    size |-> RDiv(RCMaxPosition, coverage.total_cost),
                    expected_profit_pct |->
                        RDiv(RSub(ROne, coverage.total_cost), coverage.total_cost),
                    covered |-> Len(coverage.outcomes)]>> \o later

\* scan(): for every market with three outcomes or more the sorted outcomes
\* and the coverage found are kept with the signals returned.
CSScan(markets) ==
    /\ cs_scans < MaxCoverageScans
    /\ cs_scans' = cs_scans + 1
    /\ cs_outcome_data' =
          [i \in {j \in DOMAIN markets : Len(markets[j]) >= MinOutcomes} |->
              OutcomeData(markets[i])]
    /\ cs_coverage' =
          [i \in {j \in DOMAIN markets : Len(markets[j]) >= MinOutcomes} |->
              FindOptimalCoverage(OutcomeData(markets[i]))]
    /\ cs_signals' = CoverageSignals(markets)

InitCS ==
    /\ cs_outcome_data = <<>>
    /\ cs_coverage = <<>>
    /\ cs_signals = <<>>
    /\ cs_scans = 0

CoverageScan == \E markets \in CoverageCatalogs : CSScan(markets)

NextCoverageScan ==
    \/ CoverageScan /\ UNCHANGED restCS

---------------------------------------------------------------------------
(* SpreadTradingStrategy (strategies/spread_trading.py): scan's signal,     *)
(* execute, _get_inventory_imbalance and refresh_orders for one token of    *)
(* one market.  The inventory is the one update_inventory keeps.            *)

MaxSpreadOps == 2

STMinSpread == Rat(2, 100)
max_inventory_imbalance == Rat(3, 10)
order_size == 100
TypicalPositions == 10
PriceImprovement == Rat(1, 1000)

MakerFillSizes == {RInt(120), RInt(400), RInt(1000)}
MakerFillPrice == Rat(1, 2)
MakerQuotes == {Quote(Rat(2, 5), Rat(1, 2)), Quote(Rat(499, 1000), Rat(1, 2))}
\* place_order: both orders accepted, or the bid or the ask raises
PlaceOutcomes == {"placed", "bid raises", "ask raises"}

\* PolymarketClient.get_price, from the best bid and ask of the book
GetPrice(quote) ==
    LET mid_price == RDiv(RAdd(quote.bid, quote.ask), RInt(2))
        spread == RSub(quote.ask, quote.bid)
    IN [bid |-> quote.bid, ask |-> quote.ask, mid |-> mid_price, spread |-> spread,
        spread_pct |-> IF RLt(RZero, mid_price) THEN RDiv(spread, mid_price) ELSE RZero]

\* The signal scan makes of a token's prices, if any.
SpreadSignal(quote) ==
    LET prices == GetPrice(quote)
        our_bid == RAdd(prices.bid, PriceImprovement)
        our_ask == RSub(prices.ask, PriceImprovement)
        our_spread == RSub(our_ask, our_bid)
    IN IF RLe(STMinSpread, prices.spread_pct) /\ RLe(RMul(STMinSpread, prices.mid), our_spread)
       THEN [price |-> prices.mid, size |-> RInt(order_size),
             our_bid |-> our_bid, our_ask |-> our_ask]
       ELSE NoValue

\* _get_inventory_imbalance(token_id)
ImbalanceOf(inventory) ==
    LET size == IF inventory = NoValue THEN RZero ELSE inventory.size
    IN IF size = RZero THEN RZero
       ELSE RDiv(size, RInt(order_size * TypicalPositions))
GetInventoryImbalance == ImbalanceOf(st_inventory)

\* execute(), lines 143-158: the sizes of the bid and of the ask.
SkewedSizes(size, imbalance) ==
    IF RLt(max_inventory_imbalance, imbalance)
    THEN [bid |-> RMul(size, RSub(ROne, imbalance)),
          ask |-> RMul(size, RAdd(ROne, imbalance))]
    ELSE IF RLt(imbalance, RNeg(max_inventory_imbalance))
         THEN [bid |-> RMul(size, RAdd(ROne, RAbs(imbalance))),
               ask |-> RMul(size, RSub(ROne, RAbs(imbalance)))]
         ELSE [bid |-> size, ask |-> size]

\* The orders that reached the venue when place_order answered `outcome`.
OrdersPlaced(bid_price, bid_size, ask_price, ask_size, outcome) ==
    IF outcome = "bid raises" THEN <<>>
    ELSE IF outcome = "ask raises"
         THEN <<[side |-> "BUY", price |-> bid_price, size |-> bid_size]>>
         ELSE <<[side |-> "BUY", price |-> bid_price, size |-> bid_size],
                [side |-> "SELL", price |-> ask_price, size |-> ask_size]>>

\* execute(signal)
SMExecute(signal, outcome) ==
    /\ sm_ops < MaxSpreadOps
    /\ sm_ops' = sm_ops + 1
    /\ sm_handler' = "execute"
    /\ IF ~validate_signal(signal)
       THEN /\ sm_orders' = <<>>
            /\ UNCHANGED sm_active_orders
       ELSE LET sizes == SkewedSizes(signal.size, GetInventoryImbalance)
            IN /\ sm_orders' = OrdersPlaced(signal.our_bid, sizes.bid,
                                            signal.our_ask, sizes.ask, outcome)
               /\ sm_active_orders' =
                     IF outcome = "placed"
                     THEN [bid_price |-> signal.our_bid, ask_price |-> signal.our_ask,
                           bid_size |-> sizes.bid, ask_size |-> sizes.ask]
                     ELSE sm_active_orders

\* refresh_orders(market_id)
SMRefreshOrders(quote, outcome) ==
    /\ sm_ops < MaxSpreadOps
    /\ sm_ops' = sm_ops + 1
    /\ sm_handler' = "refresh_orders"
    /\ IF sm_active_orders = NoValue
       THEN /\ sm_orders' = <<>>
            /\ UNCHANGED sm_active_orders
       ELSE LET prices == GetPrice(quote)
                new_bid == RAdd(prices.bid, PriceImprovement)
                new_ask == RSub(prices.ask, PriceImprovement)
            IN IF RLe(STMinSpread, prices.spread_pct)
               THEN /\ sm_orders' = OrdersPlaced(new_bid, RInt(order_size),
                                                 new_ask, RInt(order_size), outcome)
                    /\ sm_active_orders' =
                          IF outcome = "placed"
                          THEN [bid_price |-> new_bid, ask_price |-> new_ask]
                          ELSE sm_active_orders
               ELSE /\ sm_orders' = <<>>
                    /\ UNCHANGED sm_active_orders

InitSM ==
    /\ sm_active_orders = NoValue
    /\ sm_orders = <<>>
    /\ sm_handler = "none"
    /\ sm_ops = 0

MakerFill ==
    \E fill_side \in FillSides, fill_size \in MakerFillSizes :
        UpdateInventory(fill_side, fill_size, MakerFillPrice)
MakerExecute ==
    \E quote \in MakerQuotes, outcome \in PlaceOutcomes :
        /\ SpreadSignal(quote) # NoValue
        /\ SMExecute(SpreadSignal(quote), outcome)
MakerRefresh ==
    \E quote \in MakerQuotes, outcome \in PlaceOutcomes : SMRefreshOrders(quote, outcome)

NextSpreadMaking ==
    \/ MakerFill /\ UNCHANGED restST
    \/ MakerExecute /\ UNCHANGED restSM
    \/ MakerRefresh /\ UNCHANGED restSM

---------------------------------------------------------------------------
(* LatencyArbitrageStrategy (strategies/latency_arbitrage.py):              *)
(* _on_impulse_detected, scan and _analyze_market_lag.  Time is counted in  *)
(* ticks and execution_window is two of them; prices of BTC are in          *)
(* thousands of dollars.                                                    *)

MaxLagScans == 1
MaxLagTicks == 3
MaxImpulses == 2

execution_window == 2
ImpliedFloor == Rat(5, 100)
ImpliedCeiling == Rat(95, 100)
BuyYesMargin == Rat(2, 100)
ConfidenceCeiling == Rat(95, 100)

\* config.get('min_price_deviation', 0.02)
PriceDeviations == {Rat(1, 100), Rat(2, 100), Rat(5, 100)}
ImpulseDirections == {"up", "down"}
ImpulseConfidences == {Rat(1, 2), ROne}
BtcPrices == {RInt(50), RInt(120)}
YesMidPrices == {Rat(485, 1000), Rat(47, 100), Rat(44, 100), Rat(6, 10)}

\* self._bitcoin_markets: "BTC above $100k" and "BTC below $100k", as
\* _analyze_market_lag reads the question and _extract_price_target the target.
BitcoinMarkets ==
    <<[id |-> "above", is_above_market |-> TRUE, is_below_market |-> FALSE,
       price_target |-> RInt(100)],
      [id |-> "below", is_above_market |-> FALSE, is_below_market |-> TRUE,
       price_target |-> RInt(100)]>>
MarketMids == [{"above", "below"} -> YesMidPrices]
\* The last scan returned before it read a price.
NothingRead == [btc_price |-> RZero, mids |-> <<>>]

\* min(0.95, max(0.05, x))
ImpliedProbability(x) == RMin(ImpliedCeiling, RMax(ImpliedFloor, x))

\* _analyze_market_lag(market, btc_reference_price): the signal, or NoValue
AnalyzeMarketLag(market, btc_reference_price, current_poly_price, pending, deviation) ==
    IF ~(market.is_above_market \/ market.is_below_market) THEN NoValue
    ELSE IF pending = <<>> THEN NoValue
    ELSE LET recent_impulse == pending[Len(pending)]
             btc_to_target_ratio == RDiv(btc_reference_price, market.price_target)
             implied_probability ==
                 IF market.is_above_market
                 THEN ImpliedProbability(btc_to_target_ratio)
                 ELSE ImpliedProbability(RSub(ROne, btc_to_target_ratio))
             moves_yes ==
                 IF market.is_above_market
                 THEN recent_impulse.direction = "up"
                 ELSE recent_impulse.direction = "down"
             should_buy_yes ==
                 moves_yes /\ RLt(current_poly_price, RSub(implied_probability, BuyYesMargin))
             lag == RAbs(RSub(implied_probability, current_poly_price))
         IN IF RLt(lag, deviation) THEN NoValue
            ELSE IF ~should_buy_yes THEN NoValue
            ELSE [market_id |-> market.id,
                  side |-> "YES",
                  price |-> current_poly_price,
                  confidence |->
                      RMin(ConfidenceCeiling,
                           RMul(recent_impulse.confidence, RDiv(lag, deviation))),
                  expected_profit_pct |->
                      RDiv(RSub(implied_probability, current_poly_price), current_poly_price),
                  implied_probability |-> implied_probability,
                  lag |-> lag]

\* The loop of scan over self._bitcoin_markets.
RECURSIVE LagSignals(_, _, _, _, _)
LagSignals(markets, btc_price, mids, pending, deviation) ==
    IF markets = <<>> THEN <<>>
    ELSE LET signal == AnalyzeMarketLag(Head(markets), btc_price, mids[Head(markets).id],
                                        pending, deviation)
             later == LagSignals(Tail(markets), btc_price, mids, pending, deviation)
         IN IF signal = NoValue THEN later ELSE <<signal>> \o later

\* The impulses scan keeps: imp.timestamp > cutoff
KeptImpulses(pending, now) ==
    SelectSeq(pending, LAMBDA imp : imp.timestamp > now - execution_window)

\* __init__(polymarket, config, dry_run)
LAConstruct(deviation) ==
    /\ la_pc = "new"
    /\ la_pc' = "ready"
    /\ la_min_price_deviation' = deviation
    /\ UNCHANGED <<la_pending_impulses, la_now, la_signals, la_read, la_scans>>

\* _on_impulse_detected(impulse)
LAOnImpulseDetected(direction, confidence) ==
    /\ la_pc = "ready"
    /\ Len(la_pending_impulses) < MaxImpulses
    /\ la_pending_impulses' =
          Append(la_pending_impulses,
                 [direction |-> direction, confidence |-> confidence, timestamp |-> la_now])
    /\ UNCHANGED <<la_pc, la_min_price_deviation, la_now, la_signals, la_read, la_scans>>

\* scan()
LAScan(btc_price, mids) ==
    /\ la_pc = "ready"
    /\ la_scans < MaxLagScans
    /\ la_scans' = la_scans + 1
    /\ IF la_pending_impulses = <<>>
       THEN /\ la_signals' = <<>>
            /\ la_read' = NothingRead
            /\ UNCHANGED la_pending_impulses
       ELSE /\ la_signals' = LagSignals(BitcoinMarkets, btc_price, mids,
                                        la_pending_impulses, la_min_price_deviation)
            /\ la_read' = [btc_price |-> btc_price, mids |-> mids]
            /\ la_pending_impulses' = KeptImpulses(la_pending_impulses, la_now)
    /\ UNCHANGED <<la_pc, la_min_price_deviation, la_now>>

\* The clock of datetime.now()
LATick ==
    /\ la_now < MaxLagTicks
    /\ la_now' = la_now + 1
    /\ UNCHANGED <<la_pc, la_min_price_deviation, la_pending_impulses, la_signals, la_read, la_scans>>

InitLA ==
    /\ la_pc = "new"
    /\ la_min_price_deviation = Rat(2, 100)
    /\ la_pending_impulses = <<>>
    /\ la_now = 0
    /\ la_signals = <<>>
    /\ la_read = NothingRead
    /\ la_scans = 0

LagConstruct == \E deviation \in PriceDeviations : LAConstruct(deviation)
LagImpulse ==
    \E direction \in ImpulseDirections, confidence \in ImpulseConfidences :
        LAOnImpulseDetected(direction, confidence)
LagScan == \E btc_price \in BtcPrices, mids \in MarketMids : LAScan(btc_price, mids)

NextLatencyLag ==
    \/ LagConstruct /\ UNCHANGED restLA
    \/ LagImpulse /\ UNCHANGED restLA
    \/ LagScan /\ UNCHANGED restLA
    \/ LATick /\ UNCHANGED restLA

---------------------------------------------------------------------------
(* exponential_backoff and retry_async (utils/helpers.py): the wrapper of   *)
(* one decorated operation, from the decoration to the return or the raise  *)
(* of one call.                                                             *)

MaxRetryLimit == 3
max_delay == 60
JitterFloor == Rat(1, 2)

\* max_retries and base_delay of the decorator
RetryLimits == {0, MaxRetryLimit}
BaseDelays == {RInt(1), RInt(16)}
\* random.random(), in [0, 1)
RandomValues == {RZero, Rat(1, 4), Rat(1, 2), Rat(99, 100)}

\* exponential_backoff(attempt, base_delay, max_delay, jitter=True) when
\* random.random() answers `random`
ExponentialBackoff(attempt, base_delay, random) ==
    RMul(RMin(RMul(base_delay, RInt(2 ^ attempt)), RInt(max_delay)),
         RAdd(JitterFloor, random))

\* retry_async(max_retries, base_delay)(func)
RTDecorate(max_retries, base_delay) ==
    /\ rt_pc = "new"
    /\ rt_pc' = "idle"
    /\ rt_config' = [max_retries |-> max_retries, base_delay |-> base_delay]
    /\ UNCHANGED <<rt_attempt, rt_calls, rt_delays>>

\* wrapper(*args): for attempt in range(max_retries + 1), the first await func
RTCall ==
    /\ rt_pc = "idle"
    /\ rt_pc' = "calling"
    /\ rt_attempt' = 0
    /\ rt_calls' = 1
    /\ UNCHANGED <<rt_config, rt_delays>>

\* return await func(*args, **kwargs)
RTReturns ==
    /\ rt_pc = "calling"
    /\ rt_pc' = "returned"
    /\ UNCHANGED <<rt_config, rt_attempt, rt_calls, rt_delays>>

\* except exceptions as e: sleep before the next attempt, or, after the
\* last one, raise last_exception
RTRaises(random) ==
    /\ rt_pc = "calling"
    /\ IF rt_attempt < rt_config.max_retries
       THEN /\ rt_pc' = "sleeping"
            /\ rt_delays' = Append(rt_delays,
                                   ExponentialBackoff(rt_attempt, rt_config.base_delay, random))
       ELSE /\ rt_pc' = "raised"
            /\ UNCHANGED rt_delays
    /\ UNCHANGED <<rt_config, rt_attempt, rt_calls>>

\* asyncio.sleep(delay) is over: the next attempt
RTSleepOver ==
    /\ rt_pc = "sleeping"
    /\ rt_pc' = "calling"
    /\ rt_attempt' = rt_attempt + 1
    /\ rt_calls' = rt_calls + 1
    /\ UNCHANGED <<rt_config, rt_delays>>

InitRT ==
    /\ rt_pc = "new"
    /\ rt_config = [max_retries |-> MaxRetryLimit, base_delay |-> RInt(1)]
    /\ rt_attempt = 0
    /\ rt_calls = 0
    /\ rt_delays = <<>>

RetryDecorate ==
    \E max_retries \in RetryLimits, base_delay \in BaseDelays :
        RTDecorate(max_retries, base_delay)
RetryRaises == \E random \in RandomValues : RTRaises(random)

NextRetry ==
    \/ RetryDecorate /\ UNCHANGED restRT
    \/ RTCall /\ UNCHANGED restRT
    \/ RTReturns /\ UNCHANGED restRT
    \/ RetryRaises /\ UNCHANGED restRT
    \/ RTSleepOver /\ UNCHANGED restRT

---------------------------------------------------------------------------
(* CompoundingStrategy.calculate_compound_size (strategies/compounding.py)  *)
(* on the capital that set_initial_capital and _process_result keep.        *)

MaxSizings == 1

max_position_pct == Rat(1, 10)
FallbackRatio == Rat(1, 100)
HalfKelly == Rat(1, 2)

SizingConfidences == {Rat(1, 2), Rat(9, 10), Rat(99, 100), Rat(995, 1000), ROne}
SizingProfits == {Rat(-1, 10), RZero, Rat(1, 100), Rat(1, 2)}

\* calculate_compound_size(confidence, expected_profit)
CalculateCompoundSize(current_capital, confidence, expected_profit) ==
    IF RLe(current_capital, RZero)
    THEN RZero
    ELSE LET p == confidence
             q == RSub(ROne, p)
             b == IF RLt(RZero, expected_profit) THEN expected_profit ELSE FallbackRatio
             kelly == IF RLt(RZero, b) THEN RDiv(RSub(RMul(p, b), q), b) ELSE RZero
             kelly_fraction == RMax(RZero, RMul(kelly, HalfKelly))
             position_pct == RMin(kelly_fraction, max_position_pct)
         IN RMul(current_capital, position_pct)

\* A call of calculate_compound_size: its arguments, the capital it read and
\* what it returned.
CZCalculate(confidence, expected_profit) ==
    /\ cz_calls < MaxSizings
    /\ cz_calls' = cz_calls + 1
    /\ cz_last' = [capital |-> cp_current_capital,
                   confidence |-> confidence,
                   expected_profit |-> expected_profit,
                   size |-> CalculateCompoundSize(cp_current_capital, confidence,
                                                  expected_profit)]

InitCZ ==
    /\ cz_last = NoValue
    /\ cz_calls = 0

CompoundSize ==
    \E confidence \in SizingConfidences, expected_profit \in SizingProfits :
        CZCalculate(confidence, expected_profit)

NextCompoundSize ==
    \/ CPSetCapital /\ UNCHANGED restCP
    \/ CPTrade /\ UNCHANGED restCP
    \/ CompoundSize /\ UNCHANGED restCZ

---------------------------------------------------------------------------
(* NearResolvedSnipingStrategy.check_resolutions called by two callers      *)
(* whose sweeps overlap at `await self.polymarket.get_market(market_id)`.   *)

MaxSweeps == 2

\* check_resolutions() of one of the callers, up to its first await
SWCheckResolutions(s) ==
    /\ sw_sweeps < MaxSweeps
    /\ sw_sweeps' = sw_sweeps + 1
    /\ NRSweepSnapshot(s)
    /\ UNCHANGED nr_ops

InitSW == sw_sweeps = 0

\* The sweeps start with no execute() in flight, and execute() is called by
\* one caller, on the Yes token.
SweepSignals == {sig \in Signals : sig.token_id = "YES"}
SweepExecute == \E sig \in SweepSignals : NRExecuteBegin("t1", sig)
SweepBegins == InFlight = {} /\ \E s \in AllSweepers : SWCheckResolutions(s)
SweepStep ==
    \E s \in AllSweepers : \E item \in nr_sweep[s], failed \in BOOLEAN :
        NRSweepStep(s, item, failed)

NextResolutionSweeps ==
    \/ NRQuiescent /\ SetCapital /\ UNCHANGED <<venueVars, restNR>>
    \/ NRQuiescent /\ SweepExecute /\ UNCHANGED <<venueVars, restNR>>
    \/ ExecuteReturn /\ UNCHANGED <<venueVars, restNR>>
    \/ MarketResolves /\ UNCHANGED <<nrVars, restNR>>
    \/ SweepBegins /\ UNCHANGED restSweeps
    \/ SweepStep /\ UNCHANGED <<venueVars, restNR>>

---------------------------------------------------------------------------
(* PriceAggregator (exchanges/aggregator.py) fed by several exchanges:      *)
(* add_exchange, remove_exchange, _on_price_update with                     *)
(* _check_exchange_arbitrage, and the queries get_best_price and            *)
(* get_price_deviation, for one symbol.  AggregatedPrice.exchanges is a     *)
(* dict: its entries are kept in insertion order.                           *)

MaxAggOps == 4

MinArbProfit == Rat(1, 1000)
ExchangeNames == {"binance", "kraken"}
ExchangeQuotes == {[bid |-> 100, ask |-> 101, price |-> 100],
                   [bid |-> 103, ask |-> 104, price |-> 103]}
NoExchange == "None"

\* self._prices[symbol].exchanges[update.exchange] = update
ExchangesAfter(entries, update) ==
    IF \E i \in DOMAIN entries : entries[i].exchange = update.exchange
    THEN [i \in DOMAIN entries |->
             IF entries[i].exchange = update.exchange THEN update ELSE entries[i]]
    ELSE Append(entries, update)

\* AggregatedPrice.best_bid: max over the dict's items, the first of equals
AggBestBid(entries) ==
    IF entries = <<>>
    THEN [price |-> 0, exchange |-> NoExchange]
    ELSE LET i == CHOOSE j \in DOMAIN entries :
                     /\ \A k \in DOMAIN entries : entries[k].bid <= entries[j].bid
                     /\ \A k \in 1..(j - 1) : entries[k].bid < entries[j].bid
         IN [price |-> entries[i].bid, exchange |-> entries[i].exchange]

\* AggregatedPrice.best_ask: min over the dict's items, the first of equals.
\* With no entry the price is float('inf'), here -1.
AggBestAsk(entries) ==
    IF entries = <<>>
    THEN [price |-> -1, exchange |-> NoExchange]
    ELSE LET i == CHOOSE j \in DOMAIN entries :
                     /\ \A k \in DOMAIN entries : entries[j].ask <= entries[k].ask
                     /\ \A k \in 1..(j - 1) : entries[j].ask < entries[k].ask
         IN [price |-> entries[i].ask, exchange |-> entries[i].exchange]

\* _check_exchange_arbitrage(symbol): the opportunity handed to the
\* callbacks, or NoValue
CheckExchangeArbitrage(entries) ==
    IF Len(entries) < 2 THEN NoValue
    ELSE LET bid == AggBestBid(entries)
             ask == AggBestAsk(entries)
             profit_pct == RDiv(RInt(bid.price - ask.price), RInt(ask.price))
         IN IF bid.price > ask.price /\ bid.exchange # ask.exchange
               /\ RLt(MinArbProfit, profit_pct)
            THEN [buy_exchange |-> ask.exchange, buy_price |-> ask.price,
                  sell_exchange |-> bid.exchange, sell_price |-> bid.price,
                  profit_pct |-> profit_pct]
            ELSE NoValue

\* get_best_price(symbol, side)
GetBestPrice(side) ==
    IF mx_prices = <<>> /\ ~mx_seen THEN NoValue
    ELSE IF side = "BUY" THEN AggBestAsk(mx_prices) ELSE AggBestBid(mx_prices)

\* get_price_deviation(symbol): the exchanges whose prices it reports
GetPriceDeviationExchanges == {mx_prices[i].exchange : i \in DOMAIN mx_prices}

\* add_exchange(exchange)
MXAddExchange(name) ==
    /\ mx_ops < MaxAggOps
    /\ mx_ops' = mx_ops + 1
    /\ mx_exchanges' = mx_exchanges \cup {name}
    /\ mx_arb' = NoValue
    /\ UNCHANGED <<mx_prices, mx_seen>>

\* remove_exchange(name)
MXRemoveExchange(name) ==
    /\ mx_ops < MaxAggOps
    /\ mx_ops' = mx_ops + 1
    /\ mx_exchanges' = mx_exchanges \ {name}
    /\ mx_arb' = NoValue
    /\ UNCHANGED <<mx_prices, mx_seen>>

\* _on_price_update(update), called by the exchanges that hold the callback
MXOnPriceUpdate(update) ==
    /\ mx_ops < MaxAggOps
    /\ update.exchange \in mx_exchanges
    /\ mx_ops' = mx_ops + 1
    /\ mx_prices' = ExchangesAfter(mx_prices, update)
    /\ mx_seen' = TRUE
    /\ mx_arb' = CheckExchangeArbitrage(mx_prices')
    /\ UNCHANGED mx_exchanges

InitMX ==
    /\ mx_exchanges = {}
    /\ mx_prices = <<>>
    /\ mx_seen = FALSE
    /\ mx_arb = NoValue
    /\ mx_ops = 0

AddExchange == \E name \in ExchangeNames \ mx_exchanges : MXAddExchange(name)
RemoveExchange == \E name \in ExchangeNames : MXRemoveExchange(name)
ExchangePriceUpdate ==
    \E name \in ExchangeNames, quote \in ExchangeQuotes :
        MXOnPriceUpdate([exchange |-> name, bid |-> quote.bid, ask |-> quote.ask,
                         price |-> quote.price])

NextExchanges ==
    \/ AddExchange /\ UNCHANGED restMX
    \/ RemoveExchange /\ UNCHANGED restMX
    \/ ExchangePriceUpdate /\ UNCHANGED restMX

---------------------------------------------------------------------------
Init == InitClient /\ InitVenue /\ InitNR /\ InitYN /\ InitPair /\ InitBot /\ InitAgg /\ InitRC
        /\ InitST
        /\ InitCP
        /\ InitBN
        /\ InitEX
        /\ InitOB
        /\ InitRL
        /\ InitNM
        /\ InitSS
        /\ InitPS
        /\ InitOS
        /\ InitSZ
        /\ InitCS
        /\ InitSM
        /\ InitLA
        /\ InitRT
        /\ InitCZ
        /\ InitSW
        /\ InitMX

SpecNearResolved == Init /\ [][NextNearResolved]_vars
SpecNearResolvedOverlap == Init /\ [][NextNearResolvedOverlap]_vars
SpecYesNo == Init /\ [][NextYesNo]_vars
SpecDryVsLive == Init /\ [][NextDryVsLive]_vars
SpecBot == Init /\ [][NextBot]_vars
SpecAggregator == Init /\ [][NextAggregator]_vars
SpecRangeCoverage == Init /\ [][NextRangeCoverage]_vars
SpecSpreadTrading == Init /\ [][NextSpreadTrading]_vars
SpecCompounding == Init /\ [][NextCompounding]_vars
SpecFeed == Init /\ [][NextFeed]_vars
SpecFeedOverlap == Init /\ [][NextFeedOverlap]_vars
SpecFeedFair == Init /\ [][NextFeed]_vars /\ FairFeed
SpecExchange == Init /\ [][NextExchange]_vars
SpecOrderBook == Init /\ [][NextOrderBook]_vars
SpecRateLimiter == Init /\ [][NextRateLimiter]_vars
SpecRateLimiterFair == Init /\ [][NextRateLimiter]_vars /\ FairRateLimiter

SpecNotifications == Init /\ [][NextNotifications]_vars
SpecSession == Init /\ [][NextSession]_vars
SpecParityScan == Init /\ [][NextParityScan]_vars
SpecOrderBookStream == Init /\ [][NextOrderBookStream]_vars
SpecSnipeScan == Init /\ [][NextSnipeScan]_vars
SpecCoverageScan == Init /\ [][NextCoverageScan]_vars
SpecSpreadMaking == Init /\ [][NextSpreadMaking]_vars
SpecLatencyLag == Init /\ [][NextLatencyLag]_vars
SpecRetry == Init /\ [][NextRetry]_vars
SpecCompoundSize == Init /\ [][NextCompoundSize]_vars
SpecResolutionSweeps == Init /\ [][NextResolutionSweeps]_vars
SpecExchanges == Init /\ [][NextExchanges]_vars

Next == NextNearResolvedOverlap \/ NextYesNo \/ NextDryVsLive \/ NextBot \/ NextAggregator
        \/ NextRangeCoverage
        \/ NextSpreadTrading
        \/ NextCompounding
        \/ NextFeedOverlap
        \/ NextExchange
        \/ NextOrderBook
        \/ NextRateLimiter
        \/ NextNotifications
        \/ NextSession
        \/ NextParityScan
        \/ NextOrderBookStream
        \/ NextSnipeScan
        \/ NextCoverageScan
        \/ NextSpreadMaking
        \/ NextLatencyLag
        \/ NextRetry
        \/ NextCompoundSize
        \/ NextResolutionSweeps
        \/ NextExchanges
Spec == Init /\ [][Next]_vars

---------------------------------------------------------------------------
(* Claims.                                                                 *)

CX_C2 == \A m \in Markets : yn.positions[<<m, "YES">>] = yn.positions[<<m, "NO">>]

\* C3: for every committed BuyPair, the payout of the winning token's shares
\* minus the total cost equals the recorded profit min(filled) - cost, whether
\* Yes or No wins.
ArbShares(arb, winner) == IF winner = "YES" THEN arb.yes_shares ELSE arb.no_shares
Thm_C3 ==
    \A i \in 1..Len(yn.active_arbs) : \A winner \in Outcomes :
       RSub(ArbShares(yn.active_arbs[i], winner), yn.active_arbs[i].total_cost)
          = yn.active_arbs[i].expected_profit

\* C3 witness: a live BuyPair committed with price improvement on a leg.
Wit_C3 ==
    /\ ~dry_run
    /\ \E i \in 1..Len(yn.active_arbs) :
          /\ RLt(RZero, yn.active_arbs[i].expected_profit)
          /\ RLt(yn.active_arbs[i].total_cost,
                 RMul(yn.active_arbs[i].yes_shares, Rat(9, 10)))

\* C4: a resolution pays a position the shares it holds of the winning token
\* and nothing for any other token: a position on a losing outcome is paid 0
\* and realizes -cost.
CX_C4 ==
    \A m \in Markets :
       (nr_results[m] # NoValue /\ nr_results[m].token_id # nr_results[m].winning_outcome)
          => /\ nr_results[m].payout = RZero
             /\ nr_results[m].profit_loss = RNeg(nr_results[m].cost)

\* C5: capital promised to executions in flight is held: the cost of the
\* orders of the execute() calls suspended in place_order never exceeds
\* available_capital.
RECURSIVE InFlightCost(_)
InFlightCost(ts) ==
    IF ts = {} THEN RZero
    ELSE LET t == CHOOSE x \in ts : TRUE
         IN  RAdd(RMul(nr_exec[t].size, nr_exec[t].price), InFlightCost(ts \ {t}))
CX_C5 == RLe(InFlightCost(InFlight), nr_available_capital)

\* C7: fed the same signals, with a live venue that fills every order in full
\* at its limit price, the dry-run strategy and the live strategy go through
\* the same states and results.
CX_C7 ==
    /\ pair_dry.active_arbs = pair_live.active_arbs
    /\ pair_dry.result.success = pair_live.result.success
    /\ pair_dry.result.profit_loss = pair_live.result.profit_loss

\* C6: the risk check precedes every execution: once the loss so far exceeds
\* max_daily_loss (strictly), no strategy runs any more, the rest of the
\* current iteration included.
CX_C6 ==
    [][(bot_pc = "run_once" /\ bot_next' = bot_next + 1)
          => ~(bot_total_profit + bot_iter_profit < -max_daily_loss)]_vars

\* The entries of the history, the update itself (the last entry) apart,
\* within window_ms of the update whose price is a threshold away from it.
ImpulseEntries(history) ==
    LET update == history[Len(history)]
    IN  {j \in 1..(Len(history) - 1) :
            /\ history[j].timestamp >= update.timestamp - _impulse_window_ms
            /\ history[j].timestamp <= update.timestamp
            /\ RLe(_impulse_threshold, RAbs(ChangePct(update.price, history[j].price)))}

\* C8: an update emits an impulse iff some history entry within window_ms
\* of it is a threshold away in price; a change that is only relative to
\* entries older than the window emits none.
CX_C8 ==
    agg_price_history # <<>> =>
        ((agg_impulse # NoValue) <=> (ImpulseEntries(agg_price_history) # {}))

\* The shares a coverage holds of outcome w: what the venue pays, at $1 a
\* share, when w wins.
CoverageShares(coverage, w) ==
    LET held == {k \in 1..Len(coverage.orders) : coverage.orders[k].outcome = w}
    IN  IF held = {} THEN RZero ELSE coverage.orders[CHOOSE k \in held : TRUE].shares

\* The outcomes a coverage holds shares of.
CoverageOutcomes(coverage) ==
    {coverage.orders[k].outcome : k \in 1..Len(coverage.orders)}

\* C9: for a coverage whose legs span every outcome of the market, whichever
\* outcome wins, the payout less total_cost is at least, and with every
\* outcome covered exactly, min_shares - total_cost.
CX_C9 ==
    \A m \in RCMarkets :
        (/\ rc_active_coverages[m] # NoValue
         /\ CoverageOutcomes(rc_active_coverages[m]) = RCOutcomeNames)
        => \A w \in RCOutcomeNames :
              RSub(CoverageShares(rc_active_coverages[m], w),
                   rc_active_coverages[m].total_cost)
                 = RSub(rc_active_coverages[m].min_shares,
                        rc_active_coverages[m].total_cost)

\* C10: execute records a coverage only when every leg of the coverage set
\* filled; with a leg rejected or killed nothing is recorded.
CX_C10 ==
    [][\A m \in RCMarkets :
          (/\ rc_active_coverages'[m] # rc_active_coverages[m]
           /\ rc_active_coverages'[m] # NoValue)
          => Len(rc_active_coverages'[m].orders)
                = Len(rc_exec.signal.coverage.outcomes)]_vars

\* The inventory a fill was applied to (a token without one starts empty).
InventoryBefore == IF st_inventory = NoValue THEN NewInventory ELSE st_inventory

\* C11: after a BUY fill the recorded avg_price is the size-weighted mean of
\* the fills held: the mean of the old holding and the fill when the
\* inventory was long, the price of the fill when it was flat or short.
CX_C11 ==
    [][(st_fills' = st_fills + 1 /\ st_last_fill'.side = "BUY"
            /\ RLt(RZero, st_inventory'.size))
          => st_inventory'.avg_price =
                IF RLt(RZero, InventoryBefore.size)
                THEN RDiv(RAdd(RMul(InventoryBefore.size, InventoryBefore.avg_price),
                               RMul(st_last_fill'.size, st_last_fill'.price)),
                          RAdd(InventoryBefore.size, st_last_fill'.size))
                ELSE st_last_fill'.price]_vars

\* C12: a SELL fill of s at q changes the inventory size by -s whatever the
\* inventory, and on a long (S, P) realizes (q - P) * min(s, S).
CX_C12 ==
    [][(st_fills' = st_fills + 1 /\ st_last_fill'.side = "SELL")
          => /\ st_inventory'.size = RSub(InventoryBefore.size, st_last_fill'.size)
             /\ RLt(RZero, InventoryBefore.size)
                  => RSub(st_inventory'.realized_pnl, InventoryBefore.realized_pnl)
                       = RMul(RSub(st_last_fill'.price, InventoryBefore.avg_price),
                              RMin(st_last_fill'.size, InventoryBefore.size))]_vars

\* C13: after set_initial_capital and any processed results, win_count is
\* at most trade_count, peak_capital is at least the current capital, and
\* max_drawdown is not negative.
Thm_C13 ==
    /\ cp_win_count <= cp_trade_count
    /\ RLe(cp_current_capital, cp_peak_capital)
    /\ RLe(RZero, max_drawdown)

\* A win, then a loss larger than the capital: the capital is below its peak.
Wit_C13 ==
    /\ cp_win_count >= 1
    /\ cp_win_count < cp_trade_count
    /\ RLt(cp_initial_capital, cp_peak_capital)
    /\ RLt(cp_current_capital, RZero)
    /\ RLt(RZero, max_drawdown)

\* C14: subscribe is idempotent: however often and whenever it is called,
\* at most one connection task holds an open transport for the feed, so no
\* update reaches the callbacks twice.
CX_C14 == Cardinality(OpenTasks) <= 1

RECURSIVE Pow2(_)
Pow2(k) == IF k = 0 THEN 1 ELSE 2 * Pow2(k - 1)

\* min(2^k, 60)
BackoffWait(k) == IF Pow2(k) < 60 THEN Pow2(k) ELSE 60

\* C15: the wait before the k-th consecutive re-dial (k = 0 after a
\* successful connection or at the start) is min(2^k, 60) seconds.
Thm_C15 ==
    \A t \in ConnTasks :
        bn_task[t].pc = "sleeping" => bn_wait = BackoffWait(bn_redials - 1)

\* The backoff reached its cap after a successful dial and seven failures.
Wit_C15 ==
    \E t \in ConnTasks :
        /\ bn_task[t].pc = "sleeping"
        /\ bn_ws # NoSocket
        /\ bn_redials >= 7
        /\ bn_wait = 60

\* C16: once the last symbol is unsubscribed the transport is closed: no
\* update is delivered while the subscription set is empty.
CX_C16 == [][bn_delivered'.seq # bn_delivered.seq => bn_subscriptions # {}]_vars

\* The updates a callback registered at position i must have received: all
\* that arrived since it was registered, the one being handed round
\* included once the loop has passed the callback.
DueUpdates(i) ==
    LET n == Len(ex_price_history)
        upto == IF ex_pc = 0 \/ i < ex_pc THEN n ELSE n - 1
    IN  SubSeq(ex_price_history, ex_callbacks[i].since + 1, upto)

\* C17: every registered callback receives every update, in arrival order,
\* whether or not an earlier callback raised on it.
Thm_C17 ==
    \A i \in 1..Len(ex_callbacks) : ex_received[ex_callbacks[i].id] = DueUpdates(i)

\* The first callback raised on the second update and the second callback
\* received both updates all the same.
Wit_C17 ==
    /\ ex_pc = 0
    /\ Len(ex_callbacks) = 2
    /\ Len(ex_price_history) = 2
    /\ ex_callbacks[1].id \in ex_raised
    /\ ex_callbacks[2].since = 0
    /\ ex_received[ex_callbacks[2].id] = ex_price_history

\* C18: the updates of the symbol reach the callbacks, the aggregator's
\* _on_price_update among them, with non-decreasing timestamps.
CX_C18 ==
    \A i, j \in 1..Len(ex_price_history) :
        i <= j => ex_price_history[i].timestamp <= ex_price_history[j].timestamp

\* The prices of one side whose entry received last had a size other than 0.
LivePrices(latest) ==
    {p \in DOMAIN latest : latest[p] # NeverReceived /\ latest[p] # RZero}

\* C19: after any sequence of book messages each side of the book holds
\* exactly the prices whose entry received last had a size other than 0,
\* each with that size: an entry of size 0 deletes its level or does nothing
\* when the level is missing, any other entry inserts or replaces its level.
Thm_C19 ==
    /\ DOMAIN ob_bids = LivePrices(ob_latest.bids)
    /\ DOMAIN ob_asks = LivePrices(ob_latest.asks)
    /\ \A p \in DOMAIN ob_bids : ob_bids[p].size = ob_latest.bids[p] /\ ob_bids[p].price = p
    /\ \A p \in DOMAIN ob_asks : ob_asks[p].size = ob_latest.asks[p] /\ ob_asks[p].price = p

\* A bid level was inserted and then deleted by an entry of size 0, an ask
\* level was replaced, and an entry of size 0 named a missing ask level.
Wit_C19 ==
    /\ ob_messages = MaxBookMessages
    /\ \E p \in DOMAIN ob_latest.bids : ob_latest.bids[p] = RZero /\ p \notin DOMAIN ob_bids
    /\ \E p \in DOMAIN ob_asks : ob_asks[p].size = RInt(20)
    /\ \E p \in DOMAIN ob_latest.asks : ob_latest.asks[p] = RZero
    /\ \E i \in DOMAIN ob_price_history : ob_price_history[i].bid # RZero
    /\ ob_price_history[Len(ob_price_history)].bid = RZero

\* C20: every call of acquire(tokens) returns in the end, for every number
\* of tokens asked for and with any number of callers at once: no caller
\* waits for ever, with or without the lock.
CX_C20 == \A c \in Callers : (rl_pc[c] # "idle") ~> (rl_pc[c] = "idle")

\* Two notifications have the same key: the same type and the same first 50
\* characters of the message.
SameKey(a, b) == a.type = b.type /\ a.head = b.head

CX_C22 ==
    /\ ss_late = 0
    /\ ss_signalled /\ ss_pc = "done" =>
            /\ ~ss_polymarket
            /\ \A c \in Connectors :
                    /\ ~ss_connector[c].session
                    /\ ~ss_connector[c].ws
                    /\ ss_connector[c].task \notin TaskLive

\* C23: the parity scan gives signals only for binary markets, those with
\* exactly two outcome tokens: a market with three or more outcomes gives no
\* signal built from its first two tokens.
CX_C23 == \A i \in DOMAIN ps_signals : ps_signals[i].tokens = 2

\* The total of the two asks of the market a signal was made for.
AskTotal(sig) == RAdd(sig.yes_ask, sig.no_ask)

\* C28: every BUY_BOTH signal of the scan, from the REST check or from the
\* order books, is given only when total = yes ask + no ask < 0.995 and
\* carries size = max_position / total, price = total and
\* expected_profit_pct = (1 - total) / total.
CX_C28 ==
    \A i \in DOMAIN ps_signals :
        LET sig == ps_signals[i] IN
        sig.arb_type = "BUY_BOTH" =>
            /\ RLt(AskTotal(sig), BuyBothBelow)
            /\ sig.size = RDiv(YNMaxPosition, AskTotal(sig))
            /\ sig.price = AskTotal(sig)
            /\ sig.expected_profit_pct = RDiv(RSub(ROne, AskTotal(sig)), AskTotal(sig))

\* The price of the entry found first, walking the history back from the
\* update (its last entry), that is at least window_ms older than the
\* update; the price of the oldest entry if there is none.
ReferencePrice(history) ==
    LET update == history[Len(history)]
        old == {j \in 1..Len(history) :
                    history[j].timestamp <= update.timestamp - _impulse_window_ms}
    IN  IF old = {}
        THEN history[1].price
        ELSE history[CHOOSE j \in old : \A k \in old : k <= j].price

\* C24: the price an impulse is measured from is the price of the latest
\* history entry that is at least window_ms older than the update, or of the
\* oldest entry if none is that old, and change_pct is the change from it.
CX_C24 ==
    agg_impulse # NoValue =>
        /\ agg_impulse.from_price = ReferencePrice(agg_price_history)
        /\ agg_impulse.change_pct =
                ChangePct(agg_impulse.to_price, ReferencePrice(agg_price_history))

\* available_capital plus the cost of every position the strategy tracks.
RECURSIVE PositionsCost(_)
PositionsCost(ms) ==
    IF ms = {} THEN RZero
    ELSE LET m == CHOOSE k \in ms : TRUE
         IN RAdd(IF nr_active_positions[m] = NoValue THEN RZero
                 ELSE nr_active_positions[m].cost,
                 PositionsCost(ms \ {m}))

\* C25: a fill on a market with a tracked position is merged into it, so an
\* execute moves its cost from available_capital into the tracked positions:
\* available_capital plus the cost of the tracked positions is the same
\* after every execute as before it.
CX_C25 ==
    [][(\E t \in Tasks : nr_exec[t] # Idle /\ nr_exec'[t] = Idle)
          => RAdd(nr_available_capital', PositionsCost(Markets)')
               = RAdd(nr_available_capital, PositionsCost(Markets))]_vars

\* An open connection carries the stream.
StreamCarried(stream) ==
    \E t \in ConnTasks : bn_task[t].pc = "open" /\ stream \in bn_task[t].streams

\* C26: every stream in the subscription set of a running, connected feed
\* is in the end carried by the connection, with no transport failure
\* needed: after subscribe_price(symbol) on a feed whose socket is open the
\* open connection comes to carry the symbol's stream (unless the feed is
\* stopped or the symbol is unsubscribed first).
CX_C26 ==
    \A symbol \in Symbols :
        (bn_running /\ OpenTasks # {} /\ BookTickerStream(symbol) \in bn_subscriptions)
            ~> \/ StreamCarried(BookTickerStream(symbol))
               \/ ~bn_running
               \/ BookTickerStream(symbol) \notin bn_subscriptions

\* C27: when the stream of an OrderBook was interrupted and dialled again,
\* the ladder is rebuilt from what arrives on the new connection: once a
\* book message has arrived after the gap, no level is in the book unless
\* the data received since the gap holds it.
CX_C27 ==
    (os_gaps > 0 /\ os_fresh # NothingReceived) =>
        /\ DOMAIN ob_bids \subseteq LivePrices(os_fresh.bids)
        /\ DOMAIN ob_asks \subseteq LivePrices(os_fresh.asks)

---------------------------------------------------------------------------
(* Claim C29 *)

\* capital x clamp((prob - 0.90) / 0.10, 0, 1) x 0.20
SnipeDollars(capital, prob) ==
    RMul(RMul(capital, RMax(RZero, RMin(ROne, RDiv(RSub(prob, Rat(90, 100)), Rat(10, 100))))),
         Rat(20, 100))

\* C29: every signal of a scan has the dollar size capital x
\* clamp((prob - 0.90) / 0.10, 0, 1) x 0.20 and the share size that amount
\* divided by the price, so the dollar size is never more than 20 % of the
\* available capital.
CX_C29 ==
    [][sz_scans' = sz_scans + 1 =>
          \A i \in DOMAIN sz_signals' :
              LET sig == sz_signals'[i]
                  dollars == RMul(sig.size, sig.price)
              IN /\ RLt(RZero, nr_available_capital)
                 /\ dollars = SnipeDollars(nr_available_capital, sig.price)
                 /\ sig.size = RDiv(SnipeDollars(nr_available_capital, sig.price), sig.price)
                 /\ RLe(dollars, RMul(nr_available_capital, Rat(20, 100)))]_vars

---------------------------------------------------------------------------
(* Claim C30 *)

RECURSIVE PriceSum(_)
PriceSum(outcomes) ==
    IF outcomes = <<>> THEN RZero
    ELSE RAdd(Head(outcomes).price, PriceSum(Tail(outcomes)))

\* The outcomes _find_optimal_coverage selected: none when it returned None.
Covered(i) == IF cs_coverage[i] = NoValue THEN <<>> ELSE cs_coverage[i].outcomes
CoveredCost(i) == IF cs_coverage[i] = NoValue THEN RZero ELSE cs_coverage[i].total_cost

\* `covered` is the longest prefix of `sorted` whose prices add up to
\* max_total_cost at most.
LongestPrefixWithin(covered, sorted) ==
    /\ Len(covered) <= Len(sorted)
    /\ covered = SubSeq(sorted, 1, Len(covered))
    /\ RLe(PriceSum(covered), max_total_cost)
    /\ \A j \in (Len(covered) + 1)..Len(sorted) :
           RLt(max_total_cost, PriceSum(SubSeq(sorted, 1, j)))

Priced(sorted) == SelectSeq(sorted, LAMBDA outcome : RLt(RZero, outcome.price))

ExamplePrices ==
    <<[price |-> Rat(40, 100)], [price |-> Rat(30, 100)], [price |-> Rat(15, 100)],
      [price |-> Rat(10, 100)], [price |-> Rat(5, 100)]>>

\* C30 as stated: the outcomes selected are the longest prefix of the
\* outcomes sorted by falling price whose prices add up to max_total_cost
\* at most.
CX_C30 ==
    \A i \in DOMAIN cs_coverage : LongestPrefixWithin(Covered(i), cs_outcome_data[i])

\* C30, amended: the outcomes selected are the longest prefix of the
\* outcomes with a price above 0, sorted by falling price, whose prices add
\* up to max_total_cost at most; total_cost is their sum and never above
\* max_total_cost; for the prices 0.40, 0.30, 0.15, 0.10, 0.05 the first
\* four are selected, total 0.95.
Thm_C30 ==
    \A i \in DOMAIN cs_coverage :
        /\ \A j \in 1..(Len(cs_outcome_data[i]) - 1) :
               RLe(cs_outcome_data[i][j + 1].price, cs_outcome_data[i][j].price)
        /\ LongestPrefixWithin(Covered(i), Priced(cs_outcome_data[i]))
        /\ CoveredCost(i) = PriceSum(Covered(i))
        /\ RLe(CoveredCost(i), max_total_cost)
        /\ cs_outcome_data[i] = ExamplePrices =>
               /\ Covered(i) = SubSeq(ExamplePrices, 1, 4)
               /\ CoveredCost(i) = Rat(95, 100)

\* The selection stopped at an outcome that would exceed max_total_cost
\* although a cheaper outcome after it would still fit.
Wit_C30 ==
    \E i \in DOMAIN cs_coverage :
        LET sorted == cs_outcome_data[i]
            n == Len(Covered(i))
        IN /\ n >= 1
           /\ n + 2 <= Len(sorted)
           /\ RLt(max_total_cost, RAdd(CoveredCost(i), sorted[n + 1].price))
           /\ \E j \in (n + 2)..Len(sorted) :
                  /\ RLt(RZero, sorted[j].price)
                  /\ RLe(RAdd(CoveredCost(i), sorted[j].price), max_total_cost)

---------------------------------------------------------------------------
(* Claims C31, C32 *)

\* The imbalance clamped to [-1, 1].
ClampedImbalance == RMax(RNeg(ROne), RMin(ROne, GetInventoryImbalance))

\* The sizes the orders of a step carry, as placed at the venue.
PlacedSizesAre(orders, bid_size, ask_size) ==
    \A i \in DOMAIN orders :
        orders[i].size = IF orders[i].side = "BUY" THEN bid_size ELSE ask_size

\* C31: the orders execute places have sizes >= 0 for every inventory, and
\* with |imbalance| > max_imbalance the bid has size order_size x (1 -
\* imbalance) and the ask order_size x (1 + imbalance), the imbalance being
\* position.size / (order_size x 10) clamped to [-1, 1].
CX_C31 ==
    [][sm_ops' = sm_ops + 1 /\ sm_handler' = "execute" =>
          /\ \A i \in DOMAIN sm_orders' : RLe(RZero, sm_orders'[i].size)
          /\ RLt(max_inventory_imbalance, RAbs(ClampedImbalance)) =>
                PlacedSizesAre(sm_orders',
                               RMul(RInt(order_size), RSub(ROne, ClampedImbalance)),
                               RMul(RInt(order_size), RAdd(ROne, ClampedImbalance)))]_vars

\* C32: a requote of a market whose imbalance is above max_imbalance places
\* the skewed sizes order_size x (1 - imbalance) and order_size x (1 +
\* imbalance) (60 and 140 at +0.4), and below the limit the equal sizes.
CX_C32 ==
    [][sm_ops' = sm_ops + 1 /\ sm_handler' = "refresh_orders" =>
          IF RLt(max_inventory_imbalance, RAbs(ClampedImbalance))
          THEN PlacedSizesAre(sm_orders',
                              RMul(RInt(order_size), RSub(ROne, ClampedImbalance)),
                              RMul(RInt(order_size), RAdd(ROne, ClampedImbalance)))
          ELSE PlacedSizesAre(sm_orders', RInt(order_size), RInt(order_size))]_vars

---------------------------------------------------------------------------
(* Claims C33, C34 *)

\* C33: a scan emits a signal only if an impulse with a timestamp within
\* execution_window of the scan is pending; an impulse that has aged out
\* produces no signal, not even in the first scan after it aged out.
CX_C33 ==
    [][la_scans' = la_scans + 1 /\ la_signals' # <<>> =>
          \E i \in DOMAIN la_pending_impulses :
              la_pending_impulses[i].timestamp > la_now - execution_window]_vars

\* clamp(spot / X, 0.05, 0.95) of an above-market, clamp(1 - spot / X, 0.05,
\* 0.95) of a below-market
ImpliedProb(market, spot) ==
    LET ratio == RDiv(spot, market.price_target)
        x == IF market.is_above_market THEN ratio ELSE RSub(ROne, ratio)
    IN RMax(Rat(5, 100), RMin(Rat(95, 100), x))

\* C34: a scan with a pending impulse emits a Buy on Yes for a market iff
\* the latest impulse moves the market's way (up for above, down for below)
\* and implied_prob - current_yes_price > threshold, and then with the
\* confidence min(0.95, impulse.confidence x lag / threshold).
CX_C34 ==
    [][la_scans' = la_scans + 1 /\ la_pending_impulses # <<>> =>
          LET btc_price == la_read'.btc_price
              mids == la_read'.mids
          IN  \A k \in DOMAIN BitcoinMarkets :
                    LET market == BitcoinMarkets[k]
                        impulse == la_pending_impulses[Len(la_pending_impulses)]
                        implied == ImpliedProb(market, btc_price)
                        lag == RSub(implied, mids[market.id])
                        wanted ==
                            /\ impulse.direction = (IF market.is_above_market THEN "up" ELSE "down")
                            /\ RLt(la_min_price_deviation, lag)
                        emitted == {i \in DOMAIN la_signals' :
                                       la_signals'[i].market_id = market.id}
                    IN /\ wanted <=> emitted # {}
                       /\ \A i \in emitted :
                             la_signals'[i].confidence =
                                 RMin(Rat(95, 100),
                                      RMul(impulse.confidence,
                                           RDiv(lag, la_min_price_deviation)))]_vars

---------------------------------------------------------------------------
(* Claim C35 *)

\* C35: every delay between attempts is at most max_delay; the delay before
\* retry k is min(base_delay x 2^k, max_delay) up to a jitter that takes it
\* no lower than half of that and never above max_delay; the operation is
\* called max_retries + 1 times at most, and the error is raised only after
\* the last of them.
CX_C35 ==
    /\ \A k \in DOMAIN rt_delays :
          LET nominal == RMin(RMul(rt_config.base_delay, RInt(2 ^ (k - 1))), RInt(60))
          IN /\ RLe(rt_delays[k], RInt(60))
             /\ RLe(RMul(Rat(1, 2), nominal), rt_delays[k])
    /\ rt_calls <= rt_config.max_retries + 1
    /\ rt_pc = "raised" => rt_calls = rt_config.max_retries + 1

---------------------------------------------------------------------------
(* Claim C36 *)

\* The Kelly fraction (p x b - q) / b of a signal with win probability p and
\* profit ratio b > 0.
KellyOf(p, b) == RDiv(RSub(RMul(p, b), RSub(ROne, p)), b)

\* C36: calculate_compound_size returns a value in [0, current_capital x
\* max_position_pct]; it returns 0 when current_capital <= 0, 0 when the
\* signal's Kelly fraction is negative and 0 for every signal with an
\* expected profit <= 0.
CX_C36 ==
    cz_last # NoValue =>
        /\ RLe(RZero, cz_last.size)
        /\ RLe(cz_last.size, RMax(RZero, RMul(cz_last.capital, Rat(1, 10))))
        /\ RLe(cz_last.capital, RZero) => cz_last.size = RZero
        /\ RLe(cz_last.expected_profit, RZero) => cz_last.size = RZero
        /\ (RLt(RZero, cz_last.expected_profit)
              /\ RLt(KellyOf(cz_last.confidence, cz_last.expected_profit), RZero))
           => cz_last.size = RZero

---------------------------------------------------------------------------
(* Claim C37 *)

\* C37: a step of a resolution sweep that credits available capital pays a
\* position that is still open and removes it, so that no position is paid
\* twice, whether the sweeps follow each other or overlap.
CX_C37 ==
    [][(/\ \E s \in AllSweepers : nr_sweep'[s] # nr_sweep[s] /\ nr_sweep'[s] \subseteq nr_sweep[s]
        /\ nr_available_capital' # nr_available_capital)
       => \E m \in Markets :
             /\ nr_active_positions[m] # NoValue
             /\ nr_active_positions'[m] = NoValue
             /\ nr_available_capital' =
                   RAdd(nr_available_capital, nr_active_positions[m].shares)]_vars

---------------------------------------------------------------------------
(* Claim C38 *)

\* C38: the best bid and the best ask, the prices get_price_deviation
\* reports and the arbitrage opportunity handed to the callbacks are those
\* of exchanges that are registered: nothing reports a price of an exchange
\* that was removed.
CX_C38 ==
    /\ \A side \in {"BUY", "SELL"} :
          GetBestPrice(side) # NoValue =>
              GetBestPrice(side).exchange \in mx_exchanges \cup {NoExchange}
    /\ GetPriceDeviationExchanges \subseteq mx_exchanges
    /\ mx_arb # NoValue =>
          /\ mx_arb.buy_exchange \in mx_exchanges
          /\ mx_arb.sell_exchange \in mx_exchanges

====
